---------------------------- MODULE Spec2Model ----------------------------
(***************************************************************************)
(* Error classification and translation pipeline of Go-backend-starter:    *)
(* sqlerr (storage error classifier, naming heuristics, message            *)
(* formatter), errs (the HttpError envelope and its constructors) and      *)
(* middleware.GlobalErrorHandler (boundary resolver, response committer).  *)
(*                                                                         *)
(* A Go string is a sequence of one-character strings, so that ToUpper,    *)
(* Split, ReplaceAll, HasSuffix ... are computed character by character.   *)
(* An error value is the sequence of the errors that errors.As / errors.Is *)
(* visit, outermost first.  A nil pointer or nil slice is the empty        *)
(* sequence; a non-nil pointer is a one-element sequence.                  *)
(***************************************************************************)
EXTENDS Integers, Sequences, FiniteSets, TLC

VARIABLES
    committed,  \* echo Response.Committed of the request's response sink
    wire,       \* responses written to the sink, in order
    log,        \* log lines emitted by GlobalErrorHandler, in order
    calls,      \* history: the GlobalErrorHandler invocations made so far, each with
                \* its error and the sink's Committed flag when it was entered
    pc,         \* position of each concurrent GlobalErrorHandler invocation
    arg,        \* the error each concurrent invocation was called with
    call        \* a direct call of a library function: name, input, output

vars == <<committed, wire, log, calls, pc, arg, call>>

-----------------------------------------------------------------------------
(* Bounds *)

\* GlobalErrorHandler invocations on one request
MaxCalls == 2

\* direct writes of the handler on one request
MaxHandlerWrites == 1

\* requests the HTTP server may be serving at once
MaxInFlight == 3

-----------------------------------------------------------------------------
(* Go strings *)

Lower == <<"a","b","c","d","e","f","g","h","i","j","k","l","m",
           "n","o","p","q","r","s","t","u","v","w","x","y","z">>
Upper == <<"A","B","C","D","E","F","G","H","I","J","K","L","M",
           "N","O","P","Q","R","S","T","U","V","W","X","Y","Z">>

IndexIn(c, tab) ==
    IF \E i \in 1..Len(tab) : tab[i] = c
    THEN CHOOSE i \in 1..Len(tab) : tab[i] = c
    ELSE 0

UpChar(c) == LET i == IndexIn(c, Lower) IN IF i > 0 THEN Upper[i] ELSE c
LowChar(c) == LET i == IndexIn(c, Upper) IN IF i > 0 THEN Lower[i] ELSE c

\* strings.ToUpper, strings.ToLower
RECURSIVE ToUpper(_)
ToUpper(s) == IF s = <<>> THEN <<>> ELSE <<UpChar(Head(s))>> \o ToUpper(Tail(s))

RECURSIVE ToLower(_)
ToLower(s) == IF s = <<>> THEN <<>> ELSE <<LowChar(Head(s))>> \o ToLower(Tail(s))

\* strings.HasPrefix, strings.HasSuffix, strings.TrimSuffix
HasPrefix(s, p) == Len(s) >= Len(p) /\ SubSeq(s, 1, Len(p)) = p
HasSuffix(s, x) == Len(s) >= Len(x) /\ SubSeq(s, Len(s) - Len(x) + 1, Len(s)) = x
TrimSuffix(s, x) == IF HasSuffix(s, x) THEN SubSeq(s, 1, Len(s) - Len(x)) ELSE s

\* strings.Index, counted from 1; 0 when sub does not occur
Index(s, sub) ==
    LET at == {i \in 1..(Len(s) - Len(sub) + 1) : SubSeq(s, i, i + Len(sub) - 1) = sub}
    IN IF at = {} THEN 0 ELSE CHOOSE i \in at : \A j \in at : i <= j

\* strings.Contains
Contains(s, sub) == Index(s, sub) > 0

\* strings.Split with a non-empty separator
RECURSIVE Split(_, _)
Split(s, sep) ==
    LET i == Index(s, sep)
    IN IF i = 0
       THEN <<s>>
       ELSE <<SubSeq(s, 1, i - 1)>> \o Split(SubSeq(s, i + Len(sep), Len(s)), sep)

\* strings.ReplaceAll with a non-empty old
RECURSIVE ReplaceAll(_, _, _)
ReplaceAll(s, old, new) ==
    LET i == Index(s, old)
    IN IF i = 0
       THEN s
       ELSE SubSeq(s, 1, i - 1) \o new \o
            ReplaceAll(SubSeq(s, i + Len(old), Len(s)), old, new)

\* cases.Title(language.English).String on letters and spaces: the first letter
\* of every word in upper case, every other letter in lower case
Title(s) ==
    [i \in 1..Len(s) |->
        IF i = 1 \/ s[i - 1] = " " THEN UpChar(s[i]) ELSE LowChar(s[i])]

\* net/http.StatusText
StatusText(status) ==
    CASE status = 400 -> <<"B","a","d"," ","R","e","q","u","e","s","t">>
      [] status = 401 -> <<"U","n","a","u","t","h","o","r","i","z","e","d">>
      [] status = 403 -> <<"F","o","r","b","i","d","d","e","n">>
      [] status = 404 -> <<"N","o","t"," ","F","o","u","n","d">>
      [] status = 500 -> <<"I","n","t","e","r","n","a","l"," ","S","e","r","v","e","r"," ","E","r","r","o","r">>
      [] status = 503 -> <<"S","e","r","v","i","c","e"," ","U","n","a","v","a","i","l","a","b","l","e">>
      [] OTHER -> <<>>

-----------------------------------------------------------------------------
(* errs: the envelope and its constructors *)

MakeUpperCaseWithUnderscores(s) == ToUpper(ReplaceAll(s, <<" ">>, <<"_">>))

Nil == <<>>

HttpError(code, status, message, override, action, errors) ==
    [t |-> "HttpError", Code |-> code, Status |-> status, Message |-> message,
     Override |-> override, Action |-> action, Errors |-> errors]

FieldError(field, error) == [Field |-> field, Error |-> error]

BadRequestError(message, override, code, errors, action) ==
    LET formattedCode ==
            IF code # Nil THEN code[1]
            ELSE MakeUpperCaseWithUnderscores(StatusText(400))
    IN HttpError(formattedCode, 400, message, override, action, errors)

InternalServerError ==
    HttpError(MakeUpperCaseWithUnderscores(StatusText(500)), 500, StatusText(500),
              FALSE, Nil, Nil)

NotFoundError(message, override, code) ==
    LET formattedCode ==
            IF code # Nil THEN code[1]
            ELSE MakeUpperCaseWithUnderscores(StatusText(404))
    IN HttpError(formattedCode, 404, message, override, Nil, Nil)

-----------------------------------------------------------------------------
(* sqlerr: storage error classifier *)

\* mutant: the 23P01 entry is missing from the table
MapDatabaseErrorCodeNoExclude(code) ==
    CASE code = <<"4","0","P","0","1">> -> "DeadlockDetected"
      [] code = <<"2","3","5","0","2">> -> "NotNullViolation"
      [] code = <<"5","2","P","0","2">> -> "TransactionFailed"
      [] code = <<"2","3","5","1","4">> -> "CheckViolation"
      [] code = <<"2","3","5","0","5">> -> "UniqueViolation"
      [] code = <<"2","3","5","0","3">> -> "ForeignKeyViolation"
      [] code = <<"5","3","3","0","0">> -> "TooManyConnections"
      [] OTHER -> "Other"

MapDatabaseErrorCode(code) ==
    CASE code = <<"4","0","P","0","1">> -> "DeadlockDetected"
      [] code = <<"2","3","5","0","2">> -> "NotNullViolation"
      [] code = <<"5","2","P","0","2">> -> "TransactionFailed"
      [] code = <<"2","3","5","1","4">> -> "CheckViolation"
      [] code = <<"2","3","5","0","5">> -> "UniqueViolation"
      [] code = <<"2","3","P","0","1">> -> "ExcludeViolation"
      [] code = <<"2","3","5","0","3">> -> "ForeignKeyViolation"
      [] code = <<"5","3","3","0","0">> -> "TooManyConnections"
      [] OTHER -> "Other"

\* mutant: NOTICE keeps its own severity
MapDatabaseSeverityNotice(severity) ==
    CASE severity = <<"E","R","R","O","R">> -> "SeverityError"
      [] severity = <<"L","O","G">> -> "SeverityLog"
      [] severity = <<"F","A","T","A","L">> -> "SeverityFatal"
      [] severity = <<"P","A","N","I","C">> -> "SeverityPanic"
      [] severity = <<"D","E","B","U","G">> -> "SeverityDebug"
      [] severity = <<"I","N","F","O">> -> "SeverityInfo"
      [] severity = <<"W","A","R","N","I","N","G">> -> "SeverityWarning"
      [] severity = <<"N","O","T","I","C","E">> -> "SeverityNotice"
      [] OTHER -> "SeverityError"

MapDatabaseSeverity(severity) ==
    CASE severity = <<"E","R","R","O","R">> -> "SeverityError"
      [] severity = <<"L","O","G">> -> "SeverityLog"
      [] severity = <<"F","A","T","A","L">> -> "SeverityFatal"
      [] severity = <<"P","A","N","I","C">> -> "SeverityPanic"
      [] severity = <<"D","E","B","U","G">> -> "SeverityDebug"
      [] severity = <<"I","N","F","O">> -> "SeverityInfo"
      [] severity = <<"W","A","R","N","I","N","G">> -> "SeverityWarning"
      [] severity = <<"N","O","T","I","C","E">> -> "SeverityWarning"
      [] OTHER -> "SeverityError"

\* pgconn.PgError, as far as ConvertPgError reads it
PgError(severity, code, message, table, column, constraint) ==
    [t |-> "PgError", Severity |-> severity, Code |-> code, Message |-> message,
     SchemaName |-> <<>>, TableName |-> table, ColumnName |-> column,
     DataTypeName |-> <<>>, ConstraintName |-> constraint]

\* the same PgError with SchemaName and DataTypeName filled in
WithSchema(pg, schema, dataType) ==
    [pg EXCEPT !.SchemaName = schema, !.DataTypeName = dataType]

\* mutant: the table name is qualified with the schema name
ConvertPgErrorQualified(src) ==
    [t |-> "sqlerr.Error",
     Code |-> MapDatabaseErrorCode(src.Code),
     Severity |-> MapDatabaseSeverity(src.Severity),
     DatabaseCode |-> src.Code,
     Message |-> src.Message,
     SchemaName |-> src.SchemaName,
     TableName |-> IF src.SchemaName = <<>> THEN src.TableName
                   ELSE src.SchemaName \o <<".">> \o src.TableName,
     ColumnName |-> src.ColumnName,
     DataTypeName |-> src.DataTypeName,
     ConstraintName |-> src.ConstraintName,
     driverErr |-> src]

\* lines 29-42
ConvertPgError(src) ==
    [t |-> "sqlerr.Error",
     Code |-> MapDatabaseErrorCode(src.Code),
     Severity |-> MapDatabaseSeverity(src.Severity),
     DatabaseCode |-> src.Code,
     Message |-> src.Message,
     SchemaName |-> src.SchemaName,
     TableName |-> src.TableName,
     ColumnName |-> src.ColumnName,
     DataTypeName |-> src.DataTypeName,
     ConstraintName |-> src.ConstraintName,
     driverErr |-> src]

-----------------------------------------------------------------------------
(* sqlerr: naming heuristics and message formatter *)

\* mutant: the trailing "S" is stripped whatever the length of the name
generateErrorCodeAnyLength(tableName, errType) ==
    LET name == IF tableName = <<>> THEN <<"R","E","C","O","R","D">> ELSE tableName
        domain == TrimSuffix(ToUpper(name), <<"S">>)
        action == CASE errType = "ForeignKeyViolation" -> <<"N","O","T","_","F","O","U","N","D">>
                    [] errType = "UniqueViolation" -> <<"A","L","R","E","A","D","Y","_","E","X","I","S","T","S">>
                    [] errType = "NotNullViolation" -> <<"R","E","Q","U","I","R","E","D">>
                    [] errType = "CheckViolation" -> <<"I","N","V","A","L","I","D">>
                    [] OTHER -> <<"E","R","R","O","R">>
    IN domain \o <<"_">> \o action

generateErrorCode(tableName, errType) ==
    LET name == IF tableName = <<>> THEN <<"R","E","C","O","R","D">> ELSE tableName
        upper == ToUpper(name)
        domain == IF HasSuffix(upper, <<"S">>) /\ Len(upper) > 1
                  THEN SubSeq(upper, 1, Len(upper) - 1)
                  ELSE upper
        action == CASE errType = "ForeignKeyViolation" -> <<"N","O","T","_","F","O","U","N","D">>
                    [] errType = "UniqueViolation" -> <<"A","L","R","E","A","D","Y","_","E","X","I","S","T","S">>
                    [] errType = "NotNullViolation" -> <<"R","E","Q","U","I","R","E","D">>
                    [] errType = "CheckViolation" -> <<"I","N","V","A","L","I","D">>
                    [] OTHER -> <<"E","R","R","O","R">>
    IN domain \o <<"_">> \o action

humanizeText(text) ==
    IF text = <<>> THEN <<>> ELSE Title(ReplaceAll(text, <<"_">>, <<" ">>))

\* mutant: the trailing "s" is stripped whatever the length of the table name
getEntityNameAnyLength(tableName, columnName) ==
    IF columnName # <<>> /\ HasSuffix(ToLower(columnName), <<"_","i","d">>)
    THEN humanizeText(TrimSuffix(ToLower(columnName), <<"_","i","d">>))
    ELSE IF tableName # <<>>
         THEN humanizeText(TrimSuffix(tableName, <<"s">>))
         ELSE <<"r","e","c","o","r","d">>

getEntityName(tableName, columnName) ==
    IF columnName # <<>> /\ HasSuffix(ToLower(columnName), <<"_","i","d">>)
    THEN humanizeText(TrimSuffix(ToLower(columnName), <<"_","i","d">>))
    ELSE IF tableName # <<>>
         THEN LET entity == IF HasSuffix(tableName, <<"s">>) /\ Len(tableName) > 1
                            THEN SubSeq(tableName, 1, Len(tableName) - 1)
                            ELSE tableName
              IN humanizeText(entity)
         ELSE <<"r","e","c","o","r","d">>

\* mutant: a CheckViolation always gets the generic text
formatUserFriendlyMessageCheckGeneric(sqlErr) ==
    LET entityName == getEntityName(sqlErr.TableName, sqlErr.ColumnName)
        fieldName == humanizeText(sqlErr.ColumnName)
    IN CASE sqlErr.Code = "ForeignKeyViolation" ->
              <<"T","h","e"," ","r","e","f","e","r","e","n","c","e","d"," ">> \o entityName \o <<" ","d","o","e","s"," ","n","o","t"," ","e","x","i","s","t">>
         [] sqlErr.Code = "UniqueViolation" ->
              <<"A"," ">> \o entityName \o <<" ","w","i","t","h"," ","t","h","i","s"," ","i","d","e","n","t","i","f","i","e","r"," ","a","l","r","e","a","d","y"," ","e","x","i","s","t","s">>
         [] sqlErr.Code = "NotNullViolation" ->
              <<"T","h","e"," ">> \o (IF fieldName = <<>> THEN <<"f","i","e","l","d">> ELSE fieldName)
                  \o <<" ","i","s"," ","r","e","q","u","i","r","e","d">>
         [] sqlErr.Code = "CheckViolation" ->
              <<"O","n","e"," ","o","r"," ","m","o","r","e"," ","v","a","l","u","e","s"," ","d","o"," ","n","o","t"," ","m","e","e","t"," ","r","e","q","u","i","r","e","d"," ","c","o","n","d","i","t","i","o","n","s">>
         [] OTHER -> <<"A","n"," ","e","r","r","o","r"," ","o","c","c","u","r","r","e","d"," ","w","h","i","l","e"," ","p","r","o","c","e","s","s","i","n","g"," ","y","o","u","r"," ","r","e","q","u","e","s","t">>

formatUserFriendlyMessage(sqlErr) ==
    LET entityName == getEntityName(sqlErr.TableName, sqlErr.ColumnName)
        fieldName == humanizeText(sqlErr.ColumnName)
    IN CASE sqlErr.Code = "ForeignKeyViolation" ->
              <<"T","h","e"," ","r","e","f","e","r","e","n","c","e","d"," ">> \o entityName \o <<" ","d","o","e","s"," ","n","o","t"," ","e","x","i","s","t">>
         [] sqlErr.Code = "UniqueViolation" ->
              <<"A"," ">> \o entityName \o <<" ","w","i","t","h"," ","t","h","i","s"," ","i","d","e","n","t","i","f","i","e","r"," ","a","l","r","e","a","d","y"," ","e","x","i","s","t","s">>
         [] sqlErr.Code = "NotNullViolation" ->
              <<"T","h","e"," ">> \o (IF fieldName = <<>> THEN <<"f","i","e","l","d">> ELSE fieldName)
                  \o <<" ","i","s"," ","r","e","q","u","i","r","e","d">>
         [] sqlErr.Code = "CheckViolation" ->
              IF fieldName # <<>>
              THEN <<"T","h","e"," ">> \o fieldName \o <<" ","v","a","l","u","e"," ","d","o","e","s"," ","n","o","t"," ","m","e","e","t"," ","r","e","q","u","i","r","e","d"," ","c","o","n","d","i","t","i","o","n","s">>
              ELSE <<"O","n","e"," ","o","r"," ","m","o","r","e"," ","v","a","l","u","e","s"," ","d","o"," ","n","o","t"," ","m","e","e","t"," ","r","e","q","u","i","r","e","d"," ","c","o","n","d","i","t","i","o","n","s">>
         [] OTHER -> <<"A","n"," ","e","r","r","o","r"," ","o","c","c","u","r","r","e","d"," ","w","h","i","l","e"," ","p","r","o","c","e","s","s","i","n","g"," ","y","o","u","r"," ","r","e","q","u","e","s","t">>

\* the submatch of `_([^_]+)_(?:key|ukey)$`, or the empty string
KeySuffixField(name) ==
    LET rest == IF HasSuffix(name, <<"_","k","e","y">>) THEN SubSeq(name, 1, Len(name) - 4)
                ELSE IF HasSuffix(name, <<"_","u","k","e","y">>) THEN SubSeq(name, 1, Len(name) - 5)
                ELSE <<>>
        parts == Split(rest, <<"_">>)
    IN IF Len(parts) >= 2 /\ parts[Len(parts)] # <<>>
       THEN parts[Len(parts)]
       ELSE <<>>

\* mutant: the key-suffix convention is tried before the unique_ convention
extractColumnForUniqueViolationKeyFirst(constraintName) ==
    IF constraintName = <<>> THEN <<>>
    ELSE LET parts == Split(constraintName, <<"_">>)
         IN IF KeySuffixField(constraintName) # <<>>
            THEN KeySuffixField(constraintName)
            ELSE IF HasPrefix(constraintName, <<"u","n","i","q","u","e","_">>) /\ Len(parts) >= 3
                 THEN parts[Len(parts)]
                 ELSE <<>>

extractColumnForUniqueViolation(constraintName) ==
    IF constraintName = <<>> THEN <<>>
    ELSE LET parts == Split(constraintName, <<"_">>)
         IN IF HasPrefix(constraintName, <<"u","n","i","q","u","e","_">>) /\ Len(parts) >= 3
            THEN parts[Len(parts)]
            ELSE KeySuffixField(constraintName)

-----------------------------------------------------------------------------
(* error values *)

\* echo.HTTPError; Message is an interface{} value: text is the value itself when
\* it is a string and its %v rendering otherwise; Internal tells whether the
\* error wraps another one
EchoHTTPError(code, isString, text, internal) ==
    [t |-> "echo.HTTPError", Code |-> code,
     Message |-> [isString |-> isString, text |-> text], Internal |-> internal]

\* fmt.Errorf(prefix + "%w", inner)
Wrap(prefix) == [t |-> "wrap", Prefix |-> prefix]

\* errors.Join(a, b)
Join == [t |-> "join"]

\* errors.New(text)
Plain(text) == [t |-> "plain", Text |-> text]

\* pgx.ErrNoRows, sql.ErrNoRows
PgxErrNoRows == [t |-> "ErrNoRows", Text |-> <<"n","o"," ","r","o","w","s"," ","i","n"," ","r","e","s","u","l","t"," ","s","e","t">>]
SqlErrNoRows == [t |-> "ErrNoRows", Text |-> <<"s","q","l",":"," ","n","o"," ","r","o","w","s"," ","i","n"," ","r","e","s","u","l","t"," ","s","e","t">>]

\* a node that wraps nothing
IsLeaf(n) ==
    \/ n.t \in {"HttpError", "PgError", "ErrNoRows", "plain"}
    \/ n.t = "echo.HTTPError" /\ ~n.Internal

\* errors.As(err, &target): the first error of the wanted type in the chain, as a
\* pointer (Nil when there is none)
As(err, type) ==
    LET at == {i \in 1..Len(err) : err[i].t = type}
    IN IF at = {} THEN Nil
       ELSE <<err[CHOOSE i \in at : \A j \in at : i <= j]>>

\* errors.Is(err, sentinel)
Is(err, sentinel) == \E i \in 1..Len(err) : err[i] = sentinel

\* the decimal text of a status code
Digits == <<"0","1","2","3","4","5","6","7","8","9">>

Dec(n) == <<Digits[(n \div 100) + 1], Digits[((n \div 10) % 10) + 1], Digits[(n % 10) + 1]>>

\* err.Error()
RECURSIVE ErrText(_)
ErrText(err) ==
    LET h == Head(err)
        rest == Tail(err)
    IN CASE h.t = "wrap" -> h.Prefix \o ErrText(rest)
         [] h.t = "join" ->
              LET k == CHOOSE i \in 1..Len(rest) :
                           /\ IsLeaf(rest[i])
                           /\ \A j \in 1..(i - 1) : ~IsLeaf(rest[j])
              IN ErrText(SubSeq(rest, 1, k)) \o <<"\n">>
                     \o ErrText(SubSeq(rest, k + 1, Len(rest)))
         [] h.t = "echo.HTTPError" ->
              <<"c","o","d","e","=">> \o Dec(h.Code) \o <<","," ","m","e","s","s","a","g","e","=">> \o h.Message.text
                  \o (IF h.Internal THEN <<","," ","i","n","t","e","r","n","a","l","=">> \o ErrText(rest) ELSE <<>>)
         [] h.t = "HttpError" -> h.Message
         [] h.t = "PgError" ->
              h.Severity \o <<":"," ">> \o h.Message \o <<" ","(","S","Q","L","S","T","A","T","E"," ">> \o h.Code \o <<")">>
         [] OTHER -> h.Text

\* mutant: only the outermost error is looked at
ErrCodeNoUnwrap(err) ==
    IF err # Nil /\ err[1].t = "sqlerr.Error" THEN err[1].Code ELSE "Other"

\* part_002 lines 20-26
ErrCode(err) ==
    LET pgerr == As(err, "sqlerr.Error")
    IN IF pgerr # Nil THEN pgerr[1].Code ELSE "Other"

\* a converted error followed by what its Unwrap returns (errors.go lines 106-108)
Converted(pg) == <<ConvertPgError(pg), pg>>

-----------------------------------------------------------------------------
(* sqlerr.HandleError *)

\* mutant: the field error carries the column name as the storage engine spells it
TranslateSqlErrorRawField(sqlErr) ==
    LET errorCode == generateErrorCode(sqlErr.TableName, sqlErr.Code)
        userMessage == formatUserFriendlyMessage(sqlErr)
        columnName == extractColumnForUniqueViolation(sqlErr.ConstraintName)
    IN CASE sqlErr.Code = "ForeignKeyViolation" ->
              BadRequestError(userMessage, FALSE, <<errorCode>>, Nil, Nil)
         [] sqlErr.Code = "UniqueViolation" ->
              BadRequestError(
                  IF columnName # <<>>
                  THEN ReplaceAll(userMessage, <<"i","d","e","n","t","i","f","i","e","r">>, humanizeText(columnName))
                  ELSE userMessage,
                  TRUE, <<errorCode>>, Nil, Nil)
         [] sqlErr.Code = "NotNullViolation" ->
              BadRequestError(userMessage, TRUE, <<errorCode>>,
                  <<FieldError(sqlErr.ColumnName, <<"i","s"," ","r","e","q","u","i","r","e","d">>)>>, Nil)
         [] sqlErr.Code = "CheckViolation" ->
              BadRequestError(userMessage, TRUE, <<errorCode>>, Nil, Nil)
         [] OTHER -> InternalServerError

\* lines 165-194: the envelope of a converted storage error
TranslateSqlError(sqlErr) ==
    LET errorCode == generateErrorCode(sqlErr.TableName, sqlErr.Code)
        userMessage == formatUserFriendlyMessage(sqlErr)
        columnName == extractColumnForUniqueViolation(sqlErr.ConstraintName)
    IN CASE sqlErr.Code = "ForeignKeyViolation" ->
              BadRequestError(userMessage, FALSE, <<errorCode>>, Nil, Nil)
         [] sqlErr.Code = "UniqueViolation" ->
              BadRequestError(
                  IF columnName # <<>>
                  THEN ReplaceAll(userMessage, <<"i","d","e","n","t","i","f","i","e","r">>, humanizeText(columnName))
                  ELSE userMessage,
                  TRUE, <<errorCode>>, Nil, Nil)
         [] sqlErr.Code = "NotNullViolation" ->
              BadRequestError(userMessage, TRUE, <<errorCode>>,
                  <<FieldError(ToLower(sqlErr.ColumnName), <<"i","s"," ","r","e","q","u","i","r","e","d">>)>>, Nil)
         [] sqlErr.Code = "CheckViolation" ->
              BadRequestError(userMessage, TRUE, <<errorCode>>, Nil, Nil)
         [] OTHER -> InternalServerError

\* mutant: the CheckViolation case falls through to the default
HandlePgErrorNoCheck(pgerr) ==
    LET sqlErr == ConvertPgError(pgerr)
    IN IF sqlErr.Code = "CheckViolation"
       THEN InternalServerError
       ELSE TranslateSqlError(sqlErr)

\* mutant: the default case answers with the engine's message
HandlePgErrorRawMessage(pgerr) ==
    LET sqlErr == ConvertPgError(pgerr)
    IN IF sqlErr.Code \in {"ForeignKeyViolation", "UniqueViolation", "NotNullViolation",
                           "CheckViolation"}
       THEN TranslateSqlError(sqlErr)
       ELSE HttpError(MakeUpperCaseWithUnderscores(StatusText(500)), 500,
                      sqlErr.Message, FALSE, Nil, Nil)

\* lines 161-195: the PgError found in the chain is converted and translated
HandlePgError(pgerr) == TranslateSqlError(ConvertPgError(pgerr))

HandleNoRows(err) ==
    LET errMsg == ErrText(err)
        tablePrefix == <<"t","a","b","l","e",":">>
    IN IF Contains(errMsg, tablePrefix)
       THEN LET table == Split(Split(errMsg, tablePrefix)[2], <<":">>)[1]
                entityName == getEntityName(table, <<>>)
            IN NotFoundError(entityName \o <<" ","n","o","t"," ","f","o","u","n","d">>, TRUE, Nil)
       ELSE NotFoundError(<<"R","e","s","o","u","r","c","e"," ","n","o","t"," ","f","o","u","n","d">>, FALSE, Nil)

\* mutant: the no-rows sentinels are looked for before the PgError
HandleErrorNoRowsFirst(err) ==
    IF As(err, "HttpError") # Nil THEN err
    ELSE IF Is(err, PgxErrNoRows) \/ Is(err, SqlErrNoRows) THEN <<HandleNoRows(err)>>
    ELSE IF As(err, "PgError") # Nil THEN <<HandlePgError(As(err, "PgError")[1])>>
    ELSE <<InternalServerError>>

\* the returned error: the argument itself, or a new *HttpError
HandleError(err) ==
    IF As(err, "HttpError") # Nil THEN err
    ELSE IF As(err, "PgError") # Nil THEN <<HandlePgError(As(err, "PgError")[1])>>
    ELSE IF Is(err, PgxErrNoRows) \/ Is(err, SqlErrNoRows) THEN <<HandleNoRows(err)>>
    ELSE <<InternalServerError>>

-----------------------------------------------------------------------------
(* middleware.GlobalErrorHandler *)

\* lines 119-132: the error the response is built from.  The value that
\* sqlerr.HandleError returns is not assigned to anything.
Normalize(err) ==
    IF As(err, "HttpError") # Nil THEN err
    ELSE LET echoErr == As(err, "echo.HTTPError")
         IN IF echoErr # Nil
            THEN IF echoErr[1].Code = 404
                 THEN <<NotFoundError(<<"R","o","u","t","e"," ","n","o","t"," ","f","o","u","n","d">>, FALSE, Nil)>>
                 ELSE err
            ELSE LET unused == HandleError(err) IN err

\* lines 134-164: status, code, message, field errors and action by error type
FromHttpError(h) ==
    HttpError(h.Code, h.Status, h.Message, h.Override, h.Action, h.Errors)

\* mutant: the echo message is used whatever its type
FromEchoErrorRawMessage(e) ==
    HttpError(MakeUpperCaseWithUnderscores(StatusText(e.Code)), e.Code,
              e.Message.text, FALSE, Nil, Nil)

FromEchoError(e) ==
    LET text == StatusText(e.Code)
    IN HttpError(MakeUpperCaseWithUnderscores(text), e.Code,
                 IF e.Message.isString THEN e.Message.text ELSE text,
                 FALSE, Nil, Nil)

\* mutant: the fallback answers 400
FromUnknownBadRequest ==
    LET text == StatusText(400)
    IN HttpError(MakeUpperCaseWithUnderscores(text), 400, text, FALSE, Nil, Nil)

FromUnknown ==
    LET text == StatusText(500)
    IN HttpError(MakeUpperCaseWithUnderscores(text), 500, text, FALSE, Nil, Nil)

\* mutant: the echo case of the switch comes before the HttpError case
EnvelopeEchoFirst(err) ==
    LET e == Normalize(err)
    IN CASE \E i \in 1..Len(e) : e[i].t = "echo.HTTPError" ->
              FromEchoError(As(e, "echo.HTTPError")[1])
         [] \E i \in 1..Len(e) : e[i].t = "HttpError" ->
              FromHttpError(As(e, "HttpError")[1])
         [] OTHER -> FromUnknown

\* lines 134-164 and 173-180: the envelope handed to c.JSON
Envelope(err) ==
    LET e == Normalize(err)
    IN CASE \E i \in 1..Len(e) : e[i].t = "HttpError" ->
              FromHttpError(As(e, "HttpError")[1])
         [] \E i \in 1..Len(e) : e[i].t = "echo.HTTPError" ->
              FromEchoError(As(e, "echo.HTTPError")[1])
         [] OTHER -> FromUnknown

\* line 169: logger.Error().Stack().Err(originalErr).Int("status", status)
\*           .Str("error_code", code).Msg(message)
LogLine(err, env) ==
    [level |-> "error", err |-> err, status |-> env.Status,
     error_code |-> env.Code, message |-> env.Message]

\* c.JSON(status, body) as seen on the sink
Response(by, status, body) == [by |-> by, status |-> status, body |-> body]

-----------------------------------------------------------------------------
(* validation *)

\* validator.FieldError as far as it is read: Field(), Tag(), Param() and whether
\* Type().Kind() is reflect.String
ValidatorFieldError(field, tag, param, isString) ==
    [Field |-> field, Tag |-> tag, Param |-> param, isString |-> isString]

CustomValidationError(field, message) == [Field |-> field, Message |-> message]

\* the two error types extractValidationErrors recognizes
CustomValidationErrors(items) == [t |-> "CustomValidationErrors", items |-> items]
ValidationErrors(failures) == [t |-> "validator.ValidationErrors", failures |-> failures]

\* mutant: min and max speak of characters whatever the type of the field
getValidationMessageAnyType(err) ==
    CASE err.Tag = <<"r","e","q","u","i","r","e","d">> -> <<"i","s"," ","r","e","q","u","i","r","e","d">>
      [] err.Tag = <<"m","i","n">> -> <<"m","u","s","t"," ","b","e"," ","a","t"," ","l","e","a","s","t"," ">> \o err.Param \o <<" ","c","h","a","r","a","c","t","e","r","s">>
      [] err.Tag = <<"m","a","x">> -> <<"m","u","s","t"," ","n","o","t"," ","e","x","c","e","e","d"," ">> \o err.Param \o <<" ","c","h","a","r","a","c","t","e","r","s">>
      [] err.Tag = <<"o","n","e","o","f">> -> <<"m","u","s","t"," ","b","e"," ","o","n","e"," ","o","f",":"," ">> \o err.Param
      [] err.Tag = <<"e","m","a","i","l">> -> <<"m","u","s","t"," ","b","e"," ","a"," ","v","a","l","i","d"," ","e","m","a","i","l"," ","a","d","d","r","e","s","s">>
      [] err.Tag = <<"e","1","6","4">> -> <<"m","u","s","t"," ","b","e"," ","a"," ","v","a","l","i","d"," ","p","h","o","n","e"," ","n","u","m","b","e","r"," ","w","i","t","h"," ","c","o","u","n","t","r","y"," ","c","o","d","e">>
      [] err.Tag = <<"u","u","i","d">> -> <<"m","u","s","t"," ","b","e"," ","a"," ","v","a","l","i","d"," ","U","U","I","D">>
      [] err.Tag = <<"u","u","i","d","L","i","s","t">> -> <<"m","u","s","t"," ","b","e"," ","a"," ","c","o","m","m","a","-","s","e","p","a","r","a","t","e","d"," ","l","i","s","t"," ","o","f"," ","v","a","l","i","d"," ","U","U","I","D","s">>
      [] err.Tag = <<"d","i","v","e">> -> <<"s","o","m","e"," ","i","t","e","m","s"," ","a","r","e"," ","i","n","v","a","l","i","d">>
      [] OTHER ->
           LET field == ToLower(err.Field)
           IN IF err.Param # <<>>
              THEN field \o <<":"," ">> \o err.Tag \o <<":">> \o err.Param
              ELSE field \o <<":"," ">> \o err.Tag

getValidationMessage(err) ==
    CASE err.Tag = <<"r","e","q","u","i","r","e","d">> -> <<"i","s"," ","r","e","q","u","i","r","e","d">>
      [] err.Tag = <<"m","i","n">> ->
           IF err.isString
           THEN <<"m","u","s","t"," ","b","e"," ","a","t"," ","l","e","a","s","t"," ">> \o err.Param \o <<" ","c","h","a","r","a","c","t","e","r","s">>
           ELSE <<"m","u","s","t"," ","b","e"," ","a","t"," ","l","e","a","s","t"," ">> \o err.Param
      [] err.Tag = <<"m","a","x">> ->
           IF err.isString
           THEN <<"m","u","s","t"," ","n","o","t"," ","e","x","c","e","e","d"," ">> \o err.Param \o <<" ","c","h","a","r","a","c","t","e","r","s">>
           ELSE <<"m","u","s","t"," ","n","o","t"," ","e","x","c","e","e","d"," ">> \o err.Param
      [] err.Tag = <<"o","n","e","o","f">> -> <<"m","u","s","t"," ","b","e"," ","o","n","e"," ","o","f",":"," ">> \o err.Param
      [] err.Tag = <<"e","m","a","i","l">> -> <<"m","u","s","t"," ","b","e"," ","a"," ","v","a","l","i","d"," ","e","m","a","i","l"," ","a","d","d","r","e","s","s">>
      [] err.Tag = <<"e","1","6","4">> -> <<"m","u","s","t"," ","b","e"," ","a"," ","v","a","l","i","d"," ","p","h","o","n","e"," ","n","u","m","b","e","r"," ","w","i","t","h"," ","c","o","u","n","t","r","y"," ","c","o","d","e">>
      [] err.Tag = <<"u","u","i","d">> -> <<"m","u","s","t"," ","b","e"," ","a"," ","v","a","l","i","d"," ","U","U","I","D">>
      [] err.Tag = <<"u","u","i","d","L","i","s","t">> -> <<"m","u","s","t"," ","b","e"," ","a"," ","c","o","m","m","a","-","s","e","p","a","r","a","t","e","d"," ","l","i","s","t"," ","o","f"," ","v","a","l","i","d"," ","U","U","I","D","s">>
      [] err.Tag = <<"d","i","v","e">> -> <<"s","o","m","e"," ","i","t","e","m","s"," ","a","r","e"," ","i","n","v","a","l","i","d">>
      [] OTHER ->
           LET field == ToLower(err.Field)
           IN IF err.Param # <<>>
              THEN field \o <<":"," ">> \o err.Tag \o <<":">> \o err.Param
              ELSE field \o <<":"," ">> \o err.Tag

\* the slice built by the two loops; a nil slice when nothing was appended
FromCustom(err) ==
    IF err.t = "CustomValidationErrors"
    THEN [i \in 1..Len(err.items) |->
             FieldError(err.items[i].Field, err.items[i].Message)]
    ELSE <<>>

FromValidator(err) ==
    IF err.t = "validator.ValidationErrors"
    THEN [i \in 1..Len(err.failures) |->
             FieldError(ToLower(err.failures[i].Field),
                        getValidationMessage(err.failures[i]))]
    ELSE <<>>

\* mutant: each field error is put in front of the ones already collected
extractValidationErrorsPrepend(err) ==
    LET all == FromCustom(err) \o FromValidator(err)
    IN [message |-> <<"V","a","l","i","d","a","t","i","o","n"," ","f","a","i","l","e","d">>,
        fieldErrors |-> [i \in 1..Len(all) |-> all[Len(all) + 1 - i]]]

extractValidationErrors(err) ==
    [message |-> <<"V","a","l","i","d","a","t","i","o","n"," ","f","a","i","l","e","d">>,
     fieldErrors |-> FromCustom(err) \o FromValidator(err)]

\* validateStruct on a payload whose Validate() returns nil (Nil) or an error
validateStruct(validateErr) ==
    IF validateErr # Nil
    THEN extractValidationErrors(validateErr[1])
    ELSE [message |-> <<>>, fieldErrors |-> Nil]

\* a request payload: the error of c.Bind and the error of payload.Validate(),
\* each Nil or one error
Payload(bindErr, validateErr) == [bind |-> bindErr, validate |-> validateErr]

\* the returned error: Nil or a *HttpError
BindAndValidate(payload) ==
    IF payload.bind # Nil
    THEN LET message ==
                 Split(Split(ErrText(payload.bind), <<",">>)[2], <<"m","e","s","s","a","g","e","=">>)[2]
         IN <<BadRequestError(message, FALSE, Nil, Nil, Nil)>>
    ELSE LET v == validateStruct(payload.validate)
         IN IF v.fieldErrors # Nil
            THEN <<BadRequestError(v.message, TRUE, Nil, v.fieldErrors, Nil)>>
            ELSE Nil


-----------------------------------------------------------------------------
(* middleware.RequestID and middleware.RequestLogger *)

\* a value kept in the echo context under a key: what c.Set stored
ContextValue(isString, val) == [isString |-> isString, val |-> val]

\* mutant: a new id is generated whatever the client sent
RequestIDAlwaysNew(header, uuid) ==
    [store |-> <<ContextValue(TRUE, uuid)>>, responseHeader |-> uuid]

\* request_id.go lines 16-34: header is the request's X-Request-ID ("" when absent),
\* uuid what uuid.New().String() would return; the result is the value stored
\* under RequestIDKey and the response's X-Request-ID
RequestID(header, uuid) ==
    LET requestID == IF header = <<>> THEN uuid ELSE header
    IN [store |-> <<ContextValue(TRUE, requestID)>>, responseHeader |-> requestID]

\* request_id.go lines 38-44: store is what c.Get(RequestIDKey) returns, Nil
\* when nothing is stored
GetRequestID(store) ==
    IF store # Nil /\ store[1].isString THEN store[1].val ELSE <<>>

\* the line RequestLogger writes: level, attached error, status, request id
RequestLogLine(level, err, status, requestID) ==
    [level |-> level, err |-> err, status |-> status,
     request_id |-> IF requestID # <<>> THEN <<requestID>> ELSE Nil]

\* mutant: the recorded response status decides, the error is not inspected
RequestLoggerRecordedStatus(v, store) ==
    LET statusCode == v.Status
        requestID == GetRequestID(store)
    IN CASE statusCode >= 500 -> RequestLogLine("error", v.Error, statusCode, requestID)
         [] statusCode >= 400 /\ statusCode < 500 ->
              RequestLogLine("warn", Nil, statusCode, requestID)
         [] OTHER -> RequestLogLine("info", Nil, statusCode, requestID)

\* global.go lines 49-96: v holds the request's error and recorded status
RequestLogger(v, store) ==
    LET httpErr == As(v.Error, "HttpError")
        EchoErr == As(v.Error, "echo.HTTPError")
        statusCode == IF v.Error = Nil THEN v.Status
                      ELSE IF httpErr # Nil THEN httpErr[1].Status
                      ELSE IF EchoErr # Nil THEN EchoErr[1].Code
                      ELSE v.Status
        requestID == GetRequestID(store)
    IN CASE statusCode >= 500 -> RequestLogLine("error", v.Error, statusCode, requestID)
         [] statusCode >= 400 /\ statusCode < 500 ->
              RequestLogLine("warn", Nil, statusCode, requestID)
         [] OTHER -> RequestLogLine("info", Nil, statusCode, requestID)
-----------------------------------------------------------------------------
(* inputs *)

TableNames == {<<>>, <<"o","r","d","e","r","s">>, <<"u","s","e","r","s">>, <<"s">>, <<"o","r","d","e","r","_","i","t","e","m","s">>, <<"n","o","n","i","d","e","n","t","i","f","i","e","r","s">>}
ColumnNames == {<<>>, <<"e","m","a","i","l">>, <<"c","u","s","t","o","m","e","r","_","i","d">>, <<"f","i","r","s","t","_","n","a","m","e">>, <<"C","r","e","a","t","e","d","_","A","t">>}
ConstraintNames ==
    {<<>>, <<"u","n","i","q","u","e","_","o","r","d","e","r","s","_","r","e","f","e","r","e","n","c","e">>, <<"u","n","i","q","u","e","_","u","s","e","r","s","_","e","m","a","i","l">>, <<"o","r","d","e","r","s","_","s","k","u","_","k","e","y">>,
     <<"o","r","d","e","r","s","_","c","h","e","c","k">>}

\* the eight SQLSTATE codes of the mapping table
KnownCodes ==
    {<<"4","0","P","0","1">>, <<"2","3","5","0","2">>, <<"5","2","P","0","2">>, <<"2","3","5","1","4">>, <<"2","3","5","0","5">>, <<"2","3","P","0","1">>, <<"2","3","5","0","3">>,
     <<"5","3","3","0","0">>}

SqlStates == KnownCodes \cup {<<>>, <<"2","3","0","0","0">>, <<"4","0","p","0","1">>, <<"2","3","5","0">>, <<"2","3","5","0","5","5">>, <<"X","X","0","0","0">>}

SeverityLabels ==
    {<<"E","R","R","O","R">>, <<"L","O","G">>, <<"F","A","T","A","L">>, <<"P","A","N","I","C">>, <<"D","E","B","U","G">>, <<"I","N","F","O">>, <<"W","A","R","N","I","N","G">>,
     <<"N","O","T","I","C","E">>, <<>>, <<"e","r","r","o","r">>, <<"T","R","A","C","E">>, <<"N","O","T","I","C","E","S">>}

PgErrors ==
    {PgError(<<"E","R","R","O","R">>, c, <<"c","o","n","s","t","r","a","i","n","t"," ","f","a","i","l","e","d">>, tn, cn, kn) :
        c \in SqlStates, tn \in TableNames, cn \in ColumnNames, kn \in ConstraintNames}

PgUniqueOrders ==
    PgError(<<"E","R","R","O","R">>, <<"2","3","5","0","5">>, <<"d","u","p","l","i","c","a","t","e"," ","k","e","y"," ","v","a","l","u","e">>, <<"o","r","d","e","r","s">>, <<>>,
            <<"u","n","i","q","u","e","_","o","r","d","e","r","s","_","r","e","f","e","r","e","n","c","e">>)
PgNotNullEmail ==
    PgError(<<"E","R","R","O","R">>, <<"2","3","5","0","2">>, <<"n","u","l","l"," ","v","a","l","u","e"," ","i","n"," ","c","o","l","u","m","n">>, <<"u","s","e","r","s">>, <<"e","m","a","i","l">>, <<>>)
PgForeignKey ==
    PgError(<<"E","R","R","O","R">>, <<"2","3","5","0","3">>, <<"v","i","o","l","a","t","e","s"," ","f","o","r","e","i","g","n"," ","k","e","y">>, <<"o","r","d","e","r","s">>, <<"c","u","s","t","o","m","e","r","_","i","d">>,
            <<>>)
PgDeadlock ==
    PgError(<<"F","A","T","A","L">>, <<"4","0","P","0","1">>, <<"d","e","a","d","l","o","c","k"," ","d","e","t","e","c","t","e","d">>, <<"o","r","d","e","r","s">>, <<"e","m","a","i","l">>,
            <<"o","r","d","e","r","s","_","s","k","u","_","k","e","y">>)
PgUnknown ==
    PgError(<<"P","A","N","I","C">>, <<"X","X","0","0","0">>, <<"i","n","t","e","r","n","a","l"," ","e","r","r","o","r">>, <<"u","s","e","r","s">>, <<"e","m","a","i","l">>,
            <<"u","n","i","q","u","e","_","u","s","e","r","s","_","e","m","a","i","l">>)

NamedPgErrors == {PgUniqueOrders, PgNotNullEmail, PgForeignKey, PgDeadlock, PgUnknown}

\* the named errors as the driver fills them in, schema and data type included
DetailedPgErrors ==
    NamedPgErrors \cup {WithSchema(pg, <<"p","u","b","l","i","c">>, <<"i","n","t","4">>) : pg \in NamedPgErrors}

Redirect == [Type |-> <<"r","e","d","i","r","e","c","t">>, Message |-> <<"P","l","e","a","s","e"," ","l","o","g"," ","i","n">>, Value |-> <<"/","l","o","g","i","n">>]

DomainForbidden ==
    HttpError(<<"S","E","S","S","I","O","N","_","E","X","P","I","R","E","D">>, 403, <<"S","e","s","s","i","o","n"," ","e","x","p","i","r","e","d">>, TRUE, <<Redirect>>, Nil)
DomainValidation ==
    BadRequestError(<<"V","a","l","i","d","a","t","i","o","n"," ","f","a","i","l","e","d">>, TRUE, Nil,
        <<FieldError(<<"n","a","m","e">>, <<"i","s"," ","r","e","q","u","i","r","e","d">>),
          FieldError(<<"e","m","a","i","l">>, <<"m","u","s","t"," ","b","e"," ","a"," ","v","a","l","i","d"," ","e","m","a","i","l"," ","a","d","d","r","e","s","s">>)>>, Nil)
DomainTeapot ==
    HttpError(<<"T","E","A","P","O","T">>, 418, <<"n","o"," ","c","o","f","f","e","e">>, FALSE, Nil, Nil)

DomainErrors == {DomainForbidden, DomainValidation, DomainTeapot}

EchoErrors ==
    {EchoHTTPError(404, TRUE, <<"N","o","t"," ","F","o","u","n","d">>, FALSE),
     EchoHTTPError(404, FALSE, <<"m","a","p","[","]">>, FALSE),
     EchoHTTPError(400, TRUE, <<"b","a","d"," ","j","s","o","n">>, FALSE),
     EchoHTTPError(503, FALSE, <<"m","a","p","[","]">>, FALSE),
     EchoHTTPError(401, TRUE, <<"m","i","s","s","i","n","g"," ","t","o","k","e","n">>, FALSE)}

Prefixes == {<<"q","u","e","r","y",":"," ">>, <<"t","a","b","l","e",":","u","s","e","r","s",":"," ">>, <<"g","e","t"," ","t","a","b","l","e",":","o","r","d","e","r","_","i","t","e","m","s",":">>, <<"t","a","b","l","e",":">>,
             <<"t","a","b","l","e",":","t","i","m","e","t","a","b","l","e",":"," ">>}

NoRows == {PgxErrNoRows, SqlErrNoRows}

PlainErrors == {Plain(<<"b","o","o","m">>), Plain(<<"t","a","b","l","e",":","u","s","e","r","s",":"," ","b","o","o","m">>)}

\* errors that hold no domain HttpError, no echo error and no PgError
NoRowsChains ==
    {<<n>> : n \in NoRows} \cup {<<Wrap(p), n>> : p \in Prefixes, n \in NoRows}
        \cup {<<Join, pl, n>> : pl \in PlainErrors, n \in NoRows}
UnknownChains ==
    {<<pl>> : pl \in PlainErrors} \cup {<<Wrap(p), pl>> : p \in Prefixes, pl \in PlainErrors}

\* the errors given to sqlerr.HandleError when it is called directly
HandleErrorInputs ==
    {<<>>}
        \cup {<<pg>> : pg \in PgErrors}
        \cup {<<pg>> : pg \in DetailedPgErrors}
        \cup {<<Wrap(<<"e","x","e","c",":"," ">>), pg>> : pg \in DetailedPgErrors}
        \cup {<<Wrap(<<"q","u","e","r","y",":"," ">>), PgUniqueOrders>>, <<Join, PgDeadlock, PgxErrNoRows>>,
              <<Join, SqlErrNoRows, PgNotNullEmail>>}
        \cup NoRowsChains \cup UnknownChains
        \cup {<<d>> : d \in DomainErrors}
        \cup {<<Join, PgUniqueOrders, d>> : d \in DomainErrors}
        \cup {<<Wrap(<<"t","a","b","l","e",":","u","s","e","r","s",":"," ">>), d>> : d \in DomainErrors}
        \cup {<<e>> : e \in EchoErrors}

\* the errors a request hands to GlobalErrorHandler
RequestErrors ==
    {<<DomainForbidden>>, <<DomainValidation>>,
     <<Wrap(<<"q","u","e","r","y",":"," ">>), DomainTeapot>>,
     <<Join, PgUniqueOrders, DomainForbidden>>,
     <<EchoHTTPError(500, TRUE, <<"f","a","i","l","e","d">>, TRUE), DomainValidation>>,
     <<EchoHTTPError(404, TRUE, <<"N","o","t"," ","F","o","u","n","d">>, FALSE)>>,
     <<EchoHTTPError(404, FALSE, <<"m","a","p","[","]">>, FALSE)>>,
     <<EchoHTTPError(400, TRUE, <<"b","a","d"," ","j","s","o","n">>, FALSE)>>,
     <<EchoHTTPError(503, FALSE, <<"m","a","p","[","]">>, FALSE)>>,
     <<Wrap(<<"q","u","e","r","y",":"," ">>), EchoHTTPError(401, TRUE, <<"m","i","s","s","i","n","g"," ","t","o","k","e","n">>, FALSE)>>,
     <<EchoHTTPError(500, TRUE, <<"f","a","i","l","e","d">>, TRUE), PgUniqueOrders>>,
     <<PgUniqueOrders>>, <<PgNotNullEmail>>, <<PgForeignKey>>, <<PgDeadlock>>,
     <<Wrap(<<"q","u","e","r","y",":"," ">>), PgUnknown>>,
     <<Wrap(<<"t","a","b","l","e",":","u","s","e","r","s",":"," ">>), PgxErrNoRows>>, <<SqlErrNoRows>>,
     <<Plain(<<"b","o","o","m">>)>>, <<Wrap(<<"q","u","e","r","y",":"," ">>), Plain(<<"b","o","o","m">>)>>}

\* the names given to the naming heuristics when they are called directly
EntityTables == TableNames \cup {<<"U","S","E","R","S">>, <<"s","s">>, <<"s","t","a","t","u","s">>, <<"S">>}
EntityColumns ==
    ColumnNames \cup {<<"C","u","s","t","o","m","e","r","_","I","D">>, <<"_","i","d">>, <<"i","d">>, <<"o","r","d","e","r","_","i","t","e","m","_","i","d">>, <<"p","a","i","d">>}
ConstraintInputs ==
    ConstraintNames \cup
        {<<"u","n","i","q","u","e","_","o","r","d","e","r","s","_","e","m","a","i","l">>, <<"u","n","i","q","u","e","_","o","r","d","e","r","s","_","s","k","u","_","k","e","y">>, <<"u","n","i","q","u","e","_","e","m","a","i","l">>,
         <<"o","r","d","e","r","s","_","s","k","u","_","u","k","e","y">>, <<"o","r","d","e","r","s","_","k","e","y">>, <<"u","n","i","q","u","e","_","_">>, <<"a","_","u","n","i","q","u","e","_","k","e","y">>,
         <<"s","k","u","_","k","e","y">>, <<"a","_","_","k","e","y">>, <<"_","k","e","y">>, <<"o","r","d","e","r","s","_","s","k","u","_","k","e","y","s">>}

\* the Kinds of src/internal/sqlerr/errors.go
Kinds ==
    {"Other", "NotNullViolation", "ForeignKeyViolation", "UniqueViolation",
     "CheckViolation", "ExcludeViolation", "TransactionFailed", "DeadlockDetected",
     "TooManyConnections"}

\* validation failures
FieldNames == {<<"P","a","s","s","w","o","r","d">>, <<"a","g","e">>, <<"E","M","a","i","l">>}
Tags ==
    {<<"r","e","q","u","i","r","e","d">>, <<"m","i","n">>, <<"m","a","x">>, <<"o","n","e","o","f">>, <<"e","m","a","i","l">>, <<"e","1","6","4">>, <<"u","u","i","d">>,
     <<"u","u","i","d","L","i","s","t">>, <<"d","i","v","e">>, <<"g","t","e">>, <<"R","e","q","u","i","r","e","d">>, <<"u","u","i","d","l","i","s","t">>}
Params == {<<>>, <<"8">>, <<"r","e","d"," ","g","r","e","e","n">>}

ValidatorFieldErrors ==
    {ValidatorFieldError(f, tag, p, s) :
        f \in FieldNames, tag \in Tags, p \in Params, s \in BOOLEAN}

FailRequired == ValidatorFieldError(<<"P","a","s","s","w","o","r","d">>, <<"r","e","q","u","i","r","e","d">>, <<>>, TRUE)
FailMin == ValidatorFieldError(<<"a","g","e">>, <<"m","i","n">>, <<"8">>, FALSE)
FailEmail == ValidatorFieldError(<<"E","M","a","i","l">>, <<"e","m","a","i","l">>, <<>>, TRUE)
FailGte == ValidatorFieldError(<<"a","g","e">>, <<"g","t","e">>, <<"8">>, FALSE)

CustomTaken == CustomValidationError(<<"e","m","a","i","l">>, <<"i","s"," ","a","l","r","e","a","d","y"," ","t","a","k","e","n">>)
CustomRange == CustomValidationError(<<"e","n","d","_","d","a","t","e">>, <<"m","u","s","t"," ","b","e"," ","a","f","t","e","r"," ","s","t","a","r","t","_","d","a","t","e">>)
CustomUpper == CustomValidationError(<<"S","t","a","r","t","D","a","t","e">>, <<"i","s"," ","i","n"," ","t","h","e"," ","p","a","s","t">>)

\* the errors a payload's Validate() returns
ValidateErrors ==
    {CustomValidationErrors(<<>>), CustomValidationErrors(<<CustomTaken>>),
     CustomValidationErrors(<<CustomRange, CustomTaken>>),
     CustomValidationErrors(<<CustomTaken, CustomUpper, CustomRange>>),
     CustomValidationErrors(<<CustomTaken, CustomTaken>>),
     ValidationErrors(<<>>), ValidationErrors(<<FailRequired>>),
     ValidationErrors(<<FailMin, FailRequired>>),
     ValidationErrors(<<FailEmail, FailMin, FailGte, FailRequired>>),
     ValidationErrors(<<FailGte, FailEmail, FailGte>>),
     Plain(<<"b","o","o","m">>)}

BindErrors ==
    {EchoHTTPError(400, TRUE, <<"S","y","n","t","a","x"," ","e","r","r","o","r",":"," ","o","f","f","s","e","t","=","3">>, TRUE),
     EchoHTTPError(400, TRUE, <<"e","x","p","e","c","t","e","d","=","i","n","t",","," ","g","o","t","=","s","t","r","i","n","g">>, TRUE)}

\* the payloads of the requests that go through BindAndValidate
Payloads ==
    {Payload(Nil, Nil),
     Payload(Nil, <<Plain(<<"b","o","o","m">>)>>),
     Payload(Nil, <<CustomValidationErrors(<<>>)>>),
     Payload(Nil, <<CustomValidationErrors(<<CustomTaken, CustomUpper, CustomRange>>)>>),
     Payload(Nil, <<ValidationErrors(<<FailEmail, FailMin, FailGte, FailRequired>>)>>),
     Payload(Nil, <<ValidationErrors(<<FailGte, FailEmail, FailGte>>)>>)}
        \cup {Payload(<<b, Plain(<<"u","n","e","x","p","e","c","t","e","d"," ","E","O","F">>)>>,
                      <<ValidationErrors(<<FailRequired>>)>>) : b \in BindErrors}

\* what BindAndValidate returns for each payload
Returned_BindAndValidate == [p \in Payloads |-> BindAndValidate(p)]

\* concurrent GlobalErrorHandler invocations on one request
Procs == {1, 2}

\* the health handler's own response body
HealthBody == [t |-> "HealthResponse"]

-----------------------------------------------------------------------------
(* state machine *)

NoCall == [fn |-> "none", out |-> <<>>, done |-> FALSE]

Init ==
    /\ committed = FALSE
    /\ wire = <<>>
    /\ log = <<>>
    /\ calls = <<>>
    /\ pc = [p \in Procs |-> "idle"]
    /\ arg = [p \in Procs |-> <<>>]
    /\ call = NoCall

HandlerWrites == Cardinality({i \in 1..Len(wire) : wire[i].by = "handler"})

\* a handler writes its response itself: HealthCheck's c.JSON
HandlerWrite(status) ==
    /\ HandlerWrites < MaxHandlerWrites
    /\ wire' = Append(wire, Response("handler", status, HealthBody))
    /\ committed' = TRUE
    /\ UNCHANGED <<log, calls, pc, arg, call>>

\* mutant: the response is written whether or not the sink is committed
GlobalErrorHandlerNoGuard(err) ==
    /\ Len(calls) < MaxCalls
    /\ calls' = Append(calls, [err |-> err, committed |-> committed])
    /\ LET env == Envelope(err)
       IN /\ log' = Append(log, LogLine(err, env))
          /\ wire' = Append(wire, Response("GlobalErrorHandler", env.Status, env))
          /\ committed' = TRUE
    /\ UNCHANGED <<pc, arg, call>>

\* GlobalErrorHandler(err, c), run to completion on the request's goroutine
GlobalErrorHandler(err) ==
    /\ Len(calls) < MaxCalls
    /\ calls' = Append(calls, [err |-> err, committed |-> committed])
    /\ LET env == Envelope(err)
       IN /\ log' = Append(log, LogLine(err, env))
          /\ IF ~committed
             THEN /\ wire' = Append(wire, Response("GlobalErrorHandler", env.Status, env))
                  /\ committed' = TRUE
             ELSE UNCHANGED <<wire, committed>>
    /\ UNCHANGED <<pc, arg, call>>

\* a handler returns the error of BindAndValidate(c, payload), and echo hands it to
\* GlobalErrorHandler
BindAndValidateFails(payload) ==
    /\ Len(calls) < MaxCalls
    /\ Returned_BindAndValidate[payload] # Nil
    /\ GlobalErrorHandler(Returned_BindAndValidate[payload])

Next ==
    \/ \E err \in RequestErrors : GlobalErrorHandler(err)
    \/ \E payload \in Payloads : BindAndValidateFails(payload)
    \/ \E status \in {200, 503} : HandlerWrite(status)

Spec == Init /\ [][Next]_vars

-----------------------------------------------------------------------------
(* GlobalErrorHandler invoked from several goroutines on the same echo.Context:
   lines 114-169, the read of Committed on line 172 and the write of lines
   173-180 are separate steps *)

GEHResolve(p, err) ==
    /\ pc[p] = "idle"
    /\ calls' = Append(calls, [err |-> err, committed |-> committed])
    /\ log' = Append(log, LogLine(err, Envelope(err)))
    /\ arg' = [arg EXCEPT ![p] = err]
    /\ pc' = [pc EXCEPT ![p] = "check"]
    /\ UNCHANGED <<committed, wire, call>>

GEHCheck(p) ==
    /\ pc[p] = "check"
    /\ pc' = [pc EXCEPT ![p] = IF ~committed THEN "write" ELSE "done"]
    /\ UNCHANGED <<committed, wire, log, calls, arg, call>>

GEHWrite(p) ==
    /\ pc[p] = "write"
    /\ LET env == Envelope(arg[p])
       IN wire' = Append(wire, Response("GlobalErrorHandler", env.Status, env))
    /\ committed' = TRUE
    /\ pc' = [pc EXCEPT ![p] = "done"]
    /\ UNCHANGED <<log, calls, arg, call>>

NextConc ==
    \/ \E p \in Procs, err \in RequestErrors : GEHResolve(p, err)
    \/ \E p \in Procs : GEHCheck(p)
    \/ \E p \in Procs : GEHWrite(p)
    \/ \E status \in {200, 503} : HandlerWrite(status)

SpecConc == Init /\ [][NextConc]_vars

-----------------------------------------------------------------------------
(* the library functions called directly, each on one input *)

\* a call that takes an error, and a call that takes a string
PendingErr(fn, err) == [fn |-> fn, err |-> err, out |-> <<>>, done |-> FALSE]
PendingStr(fn, str) == [fn |-> fn, str |-> str, out |-> <<>>, done |-> FALSE]

PendingNames(fn, table, column) ==
    [fn |-> fn, table |-> table, column |-> column, out |-> <<>>, done |-> FALSE]
PendingConstraint(fn, constraint) ==
    [fn |-> fn, constraint |-> constraint, out |-> <<>>, done |-> FALSE]

PendingCode(fn, table, kind) ==
    [fn |-> fn, table |-> table, kind |-> kind, out |-> <<>>, done |-> FALSE]

PendingSqlErr(fn, sqlErr) ==
    [fn |-> fn, sqlErr |-> sqlErr, out |-> <<>>, done |-> FALSE]

PendingFieldError(fn, fe) ==
    [fn |-> fn, fe |-> fe, out |-> <<>>, done |-> FALSE]
PendingValidateError(fn, verr) ==
    [fn |-> fn, verr |-> verr, out |-> <<>>, done |-> FALSE]

PendingPayload(fn, payload) ==
    [fn |-> fn, payload |-> payload, out |-> <<>>, done |-> FALSE]

Return(out) ==
    /\ call' = [call EXCEPT !.out = out, !.done = TRUE]
    /\ UNCHANGED <<committed, wire, log, calls, pc, arg>>

\* what a client sends as X-Request-ID, "" when the header is absent
ClientRequestIDs == {<<>>, <<"a","b","c","-","1","2","3">>, <<" ">>}

\* values uuid.New().String() may return
Uuids == {<<"7","d","4","4","4","8","4","0","-","9","d","c","0","-","1","1","d","1","-","b","2","4","5","-","5","f","f","d","c","e","7","4","f","a","d","2">>, <<"e","9","0","2","8","9","3","a","-","9","d","2","2","-","3","c","7","e","-","a","7","b","8","-","d","6","e","3","1","3","b","7","1","d","9","f">>}

\* what c.Get(RequestIDKey) may return: nothing, a string, or another type's value
Stores ==
    {Nil, <<ContextValue(TRUE, <<"a","b","c","-","1","2","3">>)>>, <<ContextValue(TRUE, <<>>)>>,
     <<ContextValue(FALSE, <<"4","2">>)>>}

DomainBadGateway == HttpError(<<"U","P","S","T","R","E","A","M","_","D","O","W","N">>, 502, <<"U","p","s","t","r","e","a","m"," ","d","o","w","n">>, FALSE, Nil, Nil)

\* v.Error and v.Status as echo's request logger records them
LoggedErrors ==
    {<<>>, <<DomainBadGateway>>, <<Wrap(<<"q","u","e","r","y",":"," ">>), DomainBadGateway>>,
     <<EchoHTTPError(302, TRUE, <<"F","o","u","n","d">>, FALSE)>>}
        \cup RequestErrors
LoggedStatuses == {200, 302, 404, 500, 503}
RequestLoggerValues == [Error : LoggedErrors, Status : LoggedStatuses]

\* the errors given to sqlerr.ErrCode: nil, converted storage errors (bare,
\* wrapped, joined), unconverted driver errors and errors of other types
CodedPgErrors ==
    DetailedPgErrors
        \cup {PgError(<<"E","R","R","O","R">>, c, <<"c","o","n","s","t","r","a","i","n","t"," ","f","a","i","l","e","d">>, <<"o","r","d","e","r","s">>, <<>>, <<>>) :
                  c \in SqlStates}
ErrCodeInputs ==
    {<<>>}
        \cup {Converted(pg) : pg \in CodedPgErrors}
        \cup {<<Wrap(<<"q","u","e","r","y",":"," ">>)>> \o Converted(pg) : pg \in CodedPgErrors}
        \cup {<<Join, Plain(<<"b","o","o","m">>)>> \o Converted(pg) : pg \in CodedPgErrors}
        \cup {<<pg>> : pg \in NamedPgErrors}
        \cup UnknownChains \cup NoRowsChains
        \cup {<<d>> : d \in DomainErrors}

PendingRequestID(fn, header, uuid) ==
    [fn |-> fn, header |-> header, uuid |-> uuid, out |-> <<>>, done |-> FALSE]
PendingStore(fn, store) == [fn |-> fn, store |-> store, out |-> <<>>, done |-> FALSE]
PendingLogValues(fn, v, store) ==
    [fn |-> fn, v |-> v, store |-> store, out |-> <<>>, done |-> FALSE]

InitFn ==
    /\ committed = FALSE
    /\ wire = <<>>
    /\ log = <<>>
    /\ calls = <<>>
    /\ pc = [p \in Procs |-> "idle"]
    /\ arg = [p \in Procs |-> <<>>]
    /\ call \in {PendingErr("HandleError", err) : err \in HandleErrorInputs}
              \cup {PendingErr("ErrCode", err) : err \in ErrCodeInputs}
              \cup {PendingRequestID("RequestID", h, u) :
                        h \in ClientRequestIDs, u \in Uuids}
              \cup {PendingStore("GetRequestID", s) : s \in Stores}
              \cup {PendingLogValues("RequestLogger", v, s) :
                        v \in RequestLoggerValues, s \in Stores}
              \cup {PendingStr("MapDatabaseErrorCode", code) : code \in SqlStates}
              \cup {PendingStr("MapDatabaseSeverity", label) : label \in SeverityLabels}
              \cup {PendingNames("getEntityName", tn, cn) :
                        tn \in EntityTables, cn \in EntityColumns}
              \cup {PendingCode("generateErrorCode", tn, k) :
                        tn \in EntityTables, k \in Kinds}
              \cup {PendingSqlErr("formatUserFriendlyMessage", ConvertPgError(pg)) :
                        pg \in PgErrors}
              \cup {PendingFieldError("getValidationMessage", fe) :
                        fe \in ValidatorFieldErrors}
              \cup {PendingValidateError("extractValidationErrors", v) :
                        v \in ValidateErrors}
              \cup {PendingPayload("BindAndValidate", p) : p \in Payloads}
              \cup {PendingConstraint("extractColumnForUniqueViolation", kn) :
                        kn \in ConstraintInputs}

CallHandleError ==
    /\ call.fn = "HandleError" /\ ~call.done
    /\ Return(HandleError(call.err))

CallMapDatabaseErrorCode ==
    /\ call.fn = "MapDatabaseErrorCode" /\ ~call.done
    /\ Return(MapDatabaseErrorCode(call.str))

CallMapDatabaseSeverity ==
    /\ call.fn = "MapDatabaseSeverity" /\ ~call.done
    /\ Return(MapDatabaseSeverity(call.str))

CallGetEntityName ==
    /\ call.fn = "getEntityName" /\ ~call.done
    /\ Return(getEntityName(call.table, call.column))

CallExtractColumnForUniqueViolation ==
    /\ call.fn = "extractColumnForUniqueViolation" /\ ~call.done
    /\ Return(extractColumnForUniqueViolation(call.constraint))

CallGenerateErrorCode ==
    /\ call.fn = "generateErrorCode" /\ ~call.done
    /\ Return(generateErrorCode(call.table, call.kind))

CallFormatUserFriendlyMessage ==
    /\ call.fn = "formatUserFriendlyMessage" /\ ~call.done
    /\ Return(formatUserFriendlyMessage(call.sqlErr))

CallGetValidationMessage ==
    /\ call.fn = "getValidationMessage" /\ ~call.done
    /\ Return(getValidationMessage(call.fe))

CallExtractValidationErrors ==
    /\ call.fn = "extractValidationErrors" /\ ~call.done
    /\ Return(extractValidationErrors(call.verr))

CallBindAndValidate ==
    /\ call.fn = "BindAndValidate" /\ ~call.done
    /\ Return(BindAndValidate(call.payload))

CallRequestID ==
    /\ call.fn = "RequestID" /\ ~call.done
    /\ Return(RequestID(call.header, call.uuid))

CallGetRequestID ==
    /\ call.fn = "GetRequestID" /\ ~call.done
    /\ Return(GetRequestID(call.store))

CallRequestLogger ==
    /\ call.fn = "RequestLogger" /\ ~call.done
    /\ Return(RequestLogger(call.v, call.store))

CallErrCode ==
    /\ call.fn = "ErrCode" /\ ~call.done
    /\ Return(ErrCode(call.err))

NextFn ==
    \/ CallRequestID
    \/ CallErrCode
    \/ CallGetRequestID
    \/ CallRequestLogger
    \/ CallHandleError
    \/ CallMapDatabaseErrorCode
    \/ CallMapDatabaseSeverity
    \/ CallGetEntityName
    \/ CallBindAndValidate
    \/ CallGetValidationMessage
    \/ CallExtractValidationErrors
    \/ CallFormatUserFriendlyMessage
    \/ CallGenerateErrorCode
    \/ CallExtractColumnForUniqueViolation

SpecFn == InitFn /\ [][NextFn]_vars


-----------------------------------------------------------------------------
(* sqlerr.HandleError called twice, with another call in between or around *)

\* the first storage error of each pair
TwiceBase ==
    NamedPgErrors
        \cup {pg \in PgErrors : /\ pg.TableName = <<"o","r","d","e","r","s">>
                                /\ pg.ConstraintName \in {<<>>, <<"u","n","i","q","u","e","_","o","r","d","e","r","s","_","r","e","f","e","r","e","n","c","e">>}}

\* the SQLSTATE codes of the same Kind
SameKind(code) ==
    {c \in SqlStates : MapDatabaseErrorCode(c) = MapDatabaseErrorCode(code)}

\* storage errors to pair with pg: pg itself, errors of the same Kind and names
\* that differ in SQLSTATE, severity, message, schema and data type, and one
\* error on another table
Twins(pg) ==
    {pg, [pg EXCEPT !.TableName = <<"u","s","e","r","s">>]}
        \cup {[WithSchema(pg, <<"p","u","b","l","i","c">>, <<"i","n","t","4">>) EXCEPT
                  !.Code = c, !.Severity = <<"F","A","T","A","L">>, !.Message = <<"r","e","l","a","t","i","o","n"," ","b","u","s","y">>] :
              c \in SameKind(pg.Code)}

BetweenErrors == {<<PgUnknown>>, <<DomainTeapot>>}

PendingTwice(first, second, between) ==
    [fn |-> "HandleError", first |-> first, second |-> second, between |-> between,
     out1 |-> <<>>, out2 |-> <<>>, out3 |-> <<>>,
     done1 |-> FALSE, done2 |-> FALSE, done3 |-> FALSE]

InitTwice ==
    /\ committed = FALSE
    /\ wire = <<>>
    /\ log = <<>>
    /\ calls = <<>>
    /\ pc = [p \in Procs |-> "idle"]
    /\ arg = [p \in Procs |-> <<>>]
    /\ \E a \in TwiceBase : \E b \in Twins(a) : \E o \in BetweenErrors :
          \E second \in {<<b>>, <<Wrap(<<"e","x","e","c",":"," ">>), b>>} :
              call = PendingTwice(<<a>>, second, o)

\* the three calls return in any order: none reads or writes what another wrote
CallFirst ==
    /\ ~call.done1
    /\ call' = [call EXCEPT !.out1 = HandleError(call.first), !.done1 = TRUE]
    /\ UNCHANGED <<committed, wire, log, calls, pc, arg>>

CallSecond ==
    /\ ~call.done2
    /\ call' = [call EXCEPT !.out2 = HandleError(call.second), !.done2 = TRUE]
    /\ UNCHANGED <<committed, wire, log, calls, pc, arg>>

CallBetween ==
    /\ ~call.done3
    /\ call' = [call EXCEPT !.out3 = HandleError(call.between), !.done3 = TRUE]
    /\ UNCHANGED <<committed, wire, log, calls, pc, arg>>

NextTwice == CallFirst \/ CallSecond \/ CallBetween

SpecTwice == InitTwice /\ [][NextTwice]_vars

-----------------------------------------------------------------------------
(* server.Server: ConfigureHTTPServer, Start (in its goroutine) and Shutdown *)

\* the server as server.New returns it: no http.Server yet, the pool open, the
\* job service started (or absent: Shutdown tests s.Job for nil)
NewServer(job) ==
    [fn |-> "Server", httpServer |-> "nil", DB |-> "open", Job |-> job,
     inFlight |-> 0, start |-> "idle", shutdown |-> "idle", stopped |-> <<>>]

InitServer ==
    /\ committed = FALSE
    /\ wire = <<>>
    /\ log = <<>>
    /\ calls = <<>>
    /\ pc = [p \in Procs |-> "idle"]
    /\ arg = [p \in Procs |-> <<>>]
    /\ call \in {NewServer("running"), NewServer("nil")}

ServerStep(next) ==
    /\ call' = next
    /\ UNCHANGED <<committed, wire, log, calls, pc, arg>>

\* lines 235-243
ConfigureHTTPServer ==
    /\ call.httpServer = "nil"
    /\ ServerStep([call EXCEPT !.httpServer = "configured"])

\* lines 247-249: Start's test of s.httpServer
StartCheck ==
    /\ call.start = "idle"
    /\ ServerStep([call EXCEPT !.start = IF call.httpServer = "nil"
                                        THEN "returned: not configured"
                                        ELSE "checked"])

\* line 254: ListenAndServe returns ErrServerClosed at once after Shutdown, fails
\* to listen, or listens and serves
ListenAndServe ==
    /\ call.start = "checked"
    /\ IF call.httpServer = "closed"
       THEN ServerStep([call EXCEPT !.start = "returned: ErrServerClosed"])
       ELSE \/ ServerStep([call EXCEPT !.start = "returned: listen failed"])
            \/ ServerStep([call EXCEPT !.httpServer = "listening", !.start = "serving"])

\* line 254: Serve returns once the server has been shut down
ServeReturns ==
    /\ call.start = "serving"
    /\ call.httpServer = "closed"
    /\ ServerStep([call EXCEPT !.start = "returned: ErrServerClosed"])

\* a request arrives at the listening server; a request is answered
AcceptRequest ==
    /\ call.httpServer = "listening"
    /\ call.inFlight < MaxInFlight
    /\ ServerStep([call EXCEPT !.inFlight = @ + 1])

FinishRequest ==
    /\ call.inFlight > 0
    /\ ServerStep([call EXCEPT !.inFlight = @ - 1])

\* line 259: s.httpServer.Shutdown(ctx) is entered; a nil s.httpServer panics
ShutdownHTTP ==
    /\ call.shutdown = "idle"
    /\ IF call.httpServer = "nil"
       THEN ServerStep([call EXCEPT !.shutdown = "panicked"])
       ELSE ServerStep([call EXCEPT !.httpServer = "closed", !.shutdown = "draining"])

\* line 259: every connection is idle, http.Server.Shutdown returns nil
ShutdownHTTPDone ==
    /\ call.shutdown = "draining"
    /\ call.inFlight = 0
    /\ ServerStep([call EXCEPT !.shutdown = "http stopped",
                               !.stopped = Append(@, "http")])

\* lines 259-261: ctx expires while a request is still served; Shutdown returns
\* the wrapped error
ShutdownHTTPTimeout ==
    /\ call.shutdown = "draining"
    /\ call.inFlight > 0
    /\ ServerStep([call EXCEPT !.shutdown = "returned: error"])

\* lines 263-265: Database.Close closes the pool and returns nil
ShutdownCloseDB ==
    /\ call.shutdown = "http stopped"
    /\ ServerStep([call EXCEPT !.DB = "closed", !.shutdown = "db closed",
                               !.stopped = Append(@, "db")])

\* lines 268-272, job.go lines 63-67
ShutdownStopJob ==
    /\ call.shutdown = "db closed"
    /\ IF call.Job # "nil"
       THEN ServerStep([call EXCEPT !.Job = "stopped", !.shutdown = "returned: nil",
                                    !.stopped = Append(@, "job")])
       ELSE ServerStep([call EXCEPT !.shutdown = "returned: nil"])

NextServer ==
    \/ ConfigureHTTPServer
    \/ StartCheck
    \/ ListenAndServe
    \/ ServeReturns
    \/ AcceptRequest
    \/ FinishRequest
    \/ ShutdownHTTP
    \/ ShutdownHTTPDone
    \/ ShutdownHTTPTimeout
    \/ ShutdownCloseDB
    \/ ShutdownStopJob

SpecServer == InitServer /\ [][NextServer]_vars
-----------------------------------------------------------------------------
(* properties *)

HasType(err, type) == \E i \in 1..Len(err) : err[i].t = type

\* the outermost error of a type in a chain that holds one
FirstOfType(err, type) ==
    err[CHOOSE i \in 1..Len(err) :
            err[i].t = type /\ \A j \in 1..(i - 1) : err[j].t # type]

IsDomain(err) == HasType(err, "HttpError")
IsEcho(err) == ~IsDomain(err) /\ HasType(err, "echo.HTTPError")
IsStorage(err) == ~IsDomain(err) /\ HasType(err, "PgError")
IsNoRows(err) ==
    /\ ~IsDomain(err) /\ ~HasType(err, "PgError")
    /\ \E i \in 1..Len(err) : err[i].t = "ErrNoRows"

\* the first GlobalErrorHandler invocation found the sink uncommitted: under Spec
\* the sink was then empty, and wire[1] is what that invocation wrote
FirstCallWrote == calls # <<>> /\ ~calls[1].committed

GenericInternal ==
    HttpError(<<"I","N","T","E","R","N","A","L","_","S","E","R","V","E","R","_","E","R","R","O","R">>, 500, <<"I","n","t","e","r","n","a","l"," ","S","e","r","v","e","r"," ","E","r","r","o","r">>, FALSE, Nil, Nil)

ByHandler == {i \in 1..Len(wire) : wire[i].by = "handler"}
ByErrorHandler == {i \in 1..Len(wire) : wire[i].by = "GlobalErrorHandler"}

\* C1: each GlobalErrorHandler call logs one line, and writes its envelope iff the
\* sink was uncommitted when it was called: the error handler writes at most once
\* per sink; two successive calls (no handler write) leave one response, the
\* envelope of the first call's error, and two log lines
C1_WriteIffUncommitted ==
    /\ Len(log) = Len(calls)
    /\ \A i \in 1..Len(calls) : log[i].err = calls[i].err
    /\ Cardinality(ByErrorHandler) = Cardinality({i \in 1..Len(calls) : ~calls[i].committed})
    /\ Cardinality(ByErrorHandler) <= 1
    /\ \A i \in 1..Len(calls) :
          ~calls[i].committed =>
              /\ i = 1
              /\ wire[1] = Response("GlobalErrorHandler",
                                    Envelope(calls[1].err).Status, Envelope(calls[1].err))
    /\ (Len(calls) >= 2 /\ ByHandler = {}) =>
          /\ Len(wire) = 1
          /\ wire[1].body = Envelope(calls[1].err)
          /\ (Len(calls) = 2 => Len(log) = 2)

C1_Witness ==
    /\ Len(calls) = 2
    /\ calls[1].err = <<PgUniqueOrders>>
    /\ calls[2].err = <<DomainForbidden>>
    /\ ByHandler = {}
    /\ Len(wire) = 1
    /\ Len(log) = 2
    /\ calls[2].committed

C3_StorageEnvelopeWritten ==
    (FirstCallWrote /\ ~IsDomain(calls[1].err) /\ ~IsEcho(calls[1].err)) =>
        /\ wire[1].body = HandleError(calls[1].err)[1]
        /\ wire[1].status = HandleError(calls[1].err)[1].Status
        /\ calls[1].err = <<PgUniqueOrders>> =>
              /\ wire[1].body.Code = <<"O","R","D","E","R","_","A","L","R","E","A","D","Y","_","E","X","I","S","T","S">>
              /\ wire[1].body.Status = 400
              /\ wire[1].body.Override

\* C4: when the chain holds a domain HttpError, the envelope resolved, logged and
\* written is that HttpError (status, code, message, override, fields, action),
\* whatever else the chain holds, and sqlerr.HandleError returns the error unchanged
C4_DomainErrorPassThrough ==
    \A i \in 1..Len(calls) :
        IsDomain(calls[i].err) =>
            LET h == FirstOfType(calls[i].err, "HttpError")
            IN /\ HandleError(calls[i].err) = calls[i].err
               /\ log[i].status = h.Status
               /\ log[i].error_code = h.Code
               /\ log[i].message = h.Message
               /\ (i = 1 /\ FirstCallWrote) =>
                     /\ wire[1].status = h.Status
                     /\ wire[1].body = h

C4_Witness ==
    /\ FirstCallWrote
    /\ calls[1].err = <<Join, PgUniqueOrders, DomainForbidden>>
    /\ wire[1].body = DomainForbidden
    /\ wire[1].body.Action = <<Redirect>>

\* C5: an echo HTTPError in a chain without a domain HttpError is written with the
\* echo error's status and override false; for status 404 the message is "Route not
\* found" and the code NOT_FOUND, otherwise the message is the echo message when it
\* is a string and the standard status text when it is not
C5_EchoErrorEnvelope ==
    \A i \in 1..Len(calls) :
        IsEcho(calls[i].err) =>
            LET e == FirstOfType(calls[i].err, "echo.HTTPError")
            IN /\ log[i].status = e.Code
               /\ (i = 1 /\ FirstCallWrote) =>
                     /\ wire[1].status = e.Code
                     /\ wire[1].body.Status = e.Code
                     /\ wire[1].body.Override = FALSE
                     /\ e.Code = 404 =>
                           /\ wire[1].body.Message = <<"R","o","u","t","e"," ","n","o","t"," ","f","o","u","n","d">>
                           /\ wire[1].body.Code = <<"N","O","T","_","F","O","U","N","D">>
                     /\ (e.Code # 404 /\ e.Message.isString) =>
                           wire[1].body.Message = e.Message.text
                     /\ (e.Code # 404 /\ ~e.Message.isString) =>
                           wire[1].body.Message = StatusText(e.Code)
                     /\ (e.Code = 503 /\ ~e.Message.isString) =>
                           wire[1].body.Message = <<"S","e","r","v","i","c","e"," ","U","n","a","v","a","i","l","a","b","l","e">>

C5_Witness ==
    /\ FirstCallWrote
    /\ calls[1].err = <<EchoHTTPError(404, TRUE, <<"N","o","t"," ","F","o","u","n","d">>, FALSE)>>
    /\ wire[1].status = 404
    /\ wire[1].body.Message = <<"R","o","u","t","e"," ","n","o","t"," ","f","o","u","n","d">>

\* C6: an error that is no domain HttpError, no echo HTTPError, no PgError and no
\* no-rows sentinel resolves to the generic internal error (500,
\* INTERNAL_SERVER_ERROR, "Internal Server Error", override false, no fields, no
\* action), in GlobalErrorHandler and in sqlerr.HandleError alike
C6_UnknownErrorIsGeneric ==
    \A i \in 1..Len(calls) :
        (/\ ~IsDomain(calls[i].err) /\ ~IsEcho(calls[i].err)
         /\ ~IsStorage(calls[i].err) /\ ~IsNoRows(calls[i].err)) =>
            /\ log[i].status = 500
            /\ log[i].error_code = <<"I","N","T","E","R","N","A","L","_","S","E","R","V","E","R","_","E","R","R","O","R">>
            /\ log[i].message = <<"I","n","t","e","r","n","a","l"," ","S","e","r","v","e","r"," ","E","r","r","o","r">>
            /\ HandleError(calls[i].err) = <<GenericInternal>>
            /\ (i = 1 /\ FirstCallWrote) =>
                  /\ wire[1].status = 500
                  /\ wire[1].body = GenericInternal

C6_Witness ==
    /\ FirstCallWrote
    /\ calls[1].err = <<Wrap(<<"q","u","e","r","y",":"," ">>), Plain(<<"b","o","o","m">>)>>
    /\ wire[1].body = GenericInternal

ConstraintKinds ==
    {"ForeignKeyViolation", "UniqueViolation", "NotNullViolation", "CheckViolation"}

Returned(fn) == call.fn = fn /\ call.done

\* C7: HandleError on a PgError (no domain HttpError in the chain) returns status
\* 400 for the Kinds ForeignKeyViolation, UniqueViolation, NotNullViolation and
\* CheckViolation, and the generic status-500 envelope for every other Kind
C7_StorageStatusByKind ==
    (Returned("HandleError") /\ IsStorage(call.err)) =>
        LET kind == MapDatabaseErrorCode(FirstOfType(call.err, "PgError").Code)
        IN /\ Len(call.out) = 1
           /\ call.out[1].t = "HttpError"
           /\ kind \in ConstraintKinds => call.out[1].Status = 400
           /\ kind \notin ConstraintKinds => call.out[1] = GenericInternal

C7_Witness ==
    /\ Returned("HandleError")
    /\ IsStorage(call.err)
    /\ call.err[1].Code = <<"2","3","5","1","4">>
    /\ call.out[1].Status = 400

\* the text between the first "table:" marker and the next ":" (the rest of the
\* text when no ":" follows)
TableHint(text) ==
    LET marker == <<"t","a","b","l","e",":">>
        after == SubSeq(text, Index(text, marker) + Len(marker), Len(text))
        stop == Index(after, <<":">>)
    IN IF stop = 0 THEN after ELSE SubSeq(after, 1, stop - 1)

\* C8: HandleError on a no-rows sentinel (no HttpError, no PgError in the chain)
\* returns status 404; when the error text holds the marker "table:" the message is
\* "<Entity> not found" for the entity inferred from the text between the first
\* marker and the next ":", with override true; otherwise the message is "Resource
\* not found" with override false
C8_NoRowsNotFound ==
    (Returned("HandleError") /\ IsNoRows(call.err)) =>
        /\ Len(call.out) = 1
        /\ call.out[1].Status = 404
        /\ IF Contains(ErrText(call.err), <<"t","a","b","l","e",":">>)
           THEN /\ call.out[1].Message =
                       getEntityName(TableHint(ErrText(call.err)), <<>>) \o <<" ","n","o","t"," ","f","o","u","n","d">>
                /\ call.out[1].Override
           ELSE /\ call.out[1].Message = <<"R","e","s","o","u","r","c","e"," ","n","o","t"," ","f","o","u","n","d">>
                /\ ~call.out[1].Override

\* C9: MapDatabaseErrorCode maps the eight SQLSTATE codes of its table to their
\* Kinds and every other code string, the empty one included, to Other
C9_CodeMapping ==
    Returned("MapDatabaseErrorCode") =>
        call.out = CASE call.str = <<"4","0","P","0","1">> -> "DeadlockDetected"
                     [] call.str = <<"2","3","5","0","2">> -> "NotNullViolation"
                     [] call.str = <<"5","2","P","0","2">> -> "TransactionFailed"
                     [] call.str = <<"2","3","5","1","4">> -> "CheckViolation"
                     [] call.str = <<"2","3","5","0","5">> -> "UniqueViolation"
                     [] call.str = <<"2","3","P","0","1">> -> "ExcludeViolation"
                     [] call.str = <<"2","3","5","0","3">> -> "ForeignKeyViolation"
                     [] call.str = <<"5","3","3","0","0">> -> "TooManyConnections"
                     [] OTHER -> "Other"

C9_Witness ==
    /\ Returned("MapDatabaseErrorCode")
    /\ call.str = <<"2","3","P","0","1">>
    /\ call.out = "ExcludeViolation"

\* C10: MapDatabaseSeverity maps ERROR, LOG, FATAL, PANIC, DEBUG, INFO and WARNING to
\* the Severity of the same name, NOTICE to Warning, and every other label to Error
C10_SeverityMapping ==
    Returned("MapDatabaseSeverity") =>
        call.out = CASE call.str = <<"E","R","R","O","R">> -> "SeverityError"
                     [] call.str = <<"L","O","G">> -> "SeverityLog"
                     [] call.str = <<"F","A","T","A","L">> -> "SeverityFatal"
                     [] call.str = <<"P","A","N","I","C">> -> "SeverityPanic"
                     [] call.str = <<"D","E","B","U","G">> -> "SeverityDebug"
                     [] call.str = <<"I","N","F","O">> -> "SeverityInfo"
                     [] call.str = <<"W","A","R","N","I","N","G">> -> "SeverityWarning"
                     [] call.str = <<"N","O","T","I","C","E">> -> "SeverityWarning"
                     [] OTHER -> "SeverityError"

C10_Witness ==
    /\ Returned("MapDatabaseSeverity")
    /\ call.str = <<"N","O","T","I","C","E">>
    /\ call.out = "SeverityWarning"

-----------------------------------------------------------------------------
(* properties: naming heuristics and message formatter *)

\* the name ends with "_id" in any letter case
EndsWithId(name) ==
    Len(name) >= 3 /\ ToLower(SubSeq(name, Len(name) - 2, Len(name))) = <<"_","i","d">>

\* the name without one trailing lower-case "s", kept when the name is one letter
Singular(name) ==
    IF Len(name) > 1 /\ name[Len(name)] = "s" THEN SubSeq(name, 1, Len(name) - 1) ELSE name

\* C11: getEntityName returns the humanized column name without its "_id" suffix
\* when the column ends with "_id" in any case, whatever the table; otherwise the
\* humanized table name without one trailing "s" (kept when the name is one letter
\* long) when the table is non-empty; otherwise "record"
C11_EntityName ==
    Returned("getEntityName") =>
        /\ call.out =
              IF EndsWithId(call.column)
              THEN humanizeText(SubSeq(call.column, 1, Len(call.column) - 3))
              ELSE IF call.table # <<>> THEN humanizeText(Singular(call.table))
              ELSE <<"r","e","c","o","r","d">>
        /\ (call.table = <<"u","s","e","r","s">> /\ call.column = <<>>) => call.out = <<"U","s","e","r">>
        /\ (call.table = <<>> /\ call.column = <<"c","u","s","t","o","m","e","r","_","i","d">>) => call.out = <<"C","u","s","t","o","m","e","r">>
        /\ (call.table = <<>> /\ call.column = <<>>) => call.out = <<"r","e","c","o","r","d">>
        /\ (call.table = <<"s">> /\ call.column = <<"e","m","a","i","l">>) => call.out = <<"S">>
        /\ (call.table = <<"o","r","d","e","r","_","i","t","e","m","s">> /\ call.column = <<"C","u","s","t","o","m","e","r","_","I","D">>) =>
              call.out = <<"C","u","s","t","o","m","e","r">>

C11_Witness ==
    /\ Returned("getEntityName")
    /\ call.table = <<"s">>
    /\ call.column = <<"p","a","i","d">>
    /\ call.out = <<"S">>

\* the fields f, non-empty and free of "_", such that the name ends with
\* "_f_key" or "_f_ukey"
KeyFields(name) ==
    {f \in {SubSeq(name, i, j) : i, j \in 1..Len(name)} :
        /\ f # <<>>
        /\ \A k \in 1..Len(f) : f[k] # "_"
        /\ \/ HasSuffix(name, <<"_">> \o f \o <<"_","k","e","y">>)
           \/ HasSuffix(name, <<"_">> \o f \o <<"_","u","k","e","y">>)}

\* C12: extractColumnForUniqueViolation returns the last "_"-separated segment of
\* a name that starts with "unique_" and has three segments or more, also when
\* the name ends in "_key" or "_ukey"; else the field of a name that ends with
\* "_<field>_key" or "_<field>_ukey"; else the empty string
C12_ColumnFromConstraint ==
    Returned("extractColumnForUniqueViolation") =>
        LET name == call.constraint
            segments == Split(name, <<"_">>)
        IN /\ IF HasPrefix(name, <<"u","n","i","q","u","e","_">>) /\ Len(segments) >= 3
              THEN call.out = segments[Len(segments)]
              ELSE IF KeyFields(name) # {}
                   THEN call.out \in KeyFields(name)
                   ELSE call.out = <<>>
           /\ name = <<"u","n","i","q","u","e","_","o","r","d","e","r","s","_","e","m","a","i","l">> => call.out = <<"e","m","a","i","l">>
           /\ name = <<"o","r","d","e","r","s","_","s","k","u","_","k","e","y">> => call.out = <<"s","k","u">>
           /\ name = <<"o","r","d","e","r","s","_","s","k","u","_","u","k","e","y">> => call.out = <<"s","k","u">>
           /\ name = <<"u","n","i","q","u","e","_","o","r","d","e","r","s","_","s","k","u","_","k","e","y">> => call.out = <<"k","e","y">>
           /\ name = <<>> => call.out = <<>>

C12_Witness ==
    /\ Returned("extractColumnForUniqueViolation")
    /\ call.constraint = <<"u","n","i","q","u","e","_","o","r","d","e","r","s","_","s","k","u","_","k","e","y">>
    /\ call.out = <<"k","e","y">>

\* the action part of an error code
CodeAction(kind) ==
    CASE kind = "ForeignKeyViolation" -> <<"N","O","T","_","F","O","U","N","D">>
      [] kind = "UniqueViolation" -> <<"A","L","R","E","A","D","Y","_","E","X","I","S","T","S">>
      [] kind = "NotNullViolation" -> <<"R","E","Q","U","I","R","E","D">>
      [] kind = "CheckViolation" -> <<"I","N","V","A","L","I","D">>
      [] OTHER -> <<"E","R","R","O","R">>

\* C13 as stated: generateErrorCode returns UPPER(singularized(tableName, or
\* "RECORD" when it is empty)), "_" and the action of the Kind, where singularized
\* is the rule of the entity name: one trailing lower-case "s" stripped only if the
\* length is greater than 1
C13_CodeFromEntityRule ==
    Returned("generateErrorCode") =>
        call.out =
            ToUpper(Singular(IF call.table = <<>> THEN <<"R","E","C","O","R","D">> ELSE call.table))
                \o <<"_">> \o CodeAction(call.kind)

\* the upper-case name without one trailing "S", kept when the name is one letter
SingularUpper(name) ==
    IF Len(name) > 1 /\ name[Len(name)] = "S" THEN SubSeq(name, 1, Len(name) - 1) ELSE name

\* C13 amended: generateErrorCode upper-cases the table name ("RECORD" when it is
\* empty) and then strips one trailing "S" only if the length is greater than 1,
\* so that a trailing "s" of either case is stripped; "_" and the action of the
\* Kind follow
C13_CodeFromUpperName ==
    Returned("generateErrorCode") =>
        /\ call.out =
              SingularUpper(ToUpper(IF call.table = <<>> THEN <<"R","E","C","O","R","D">> ELSE call.table))
                  \o <<"_">> \o CodeAction(call.kind)
        /\ (call.table = <<"o","r","d","e","r","s">> /\ call.kind = "UniqueViolation") =>
              call.out = <<"O","R","D","E","R","_","A","L","R","E","A","D","Y","_","E","X","I","S","T","S">>
        /\ (call.table = <<>> /\ call.kind = "DeadlockDetected") =>
              call.out = <<"R","E","C","O","R","D","_","E","R","R","O","R">>
        /\ (call.table = <<"U","S","E","R","S">> /\ call.kind = "NotNullViolation") =>
              call.out = <<"U","S","E","R","_","R","E","Q","U","I","R","E","D">>
        /\ (call.table = <<"s">> /\ call.kind = "CheckViolation") =>
              call.out = <<"S","_","I","N","V","A","L","I","D">>

C13_Witness ==
    /\ Returned("generateErrorCode")
    /\ call.table = <<"U","S","E","R","S">>
    /\ call.kind = "ForeignKeyViolation"
    /\ call.out = <<"U","S","E","R","_","N","O","T","_","F","O","U","N","D">>

\* the storage error HandleError was given, and its Kind
GivenPgError == FirstOfType(call.err, "PgError")
GivenKind == MapDatabaseErrorCode(GivenPgError.Code)

\* C14: for a NotNullViolation, HandleError returns the message "The <humanized
\* column> is required" ("The field is required" when the column is unknown) and
\* exactly one field error {field: lower-cased column, error: "is required"}
C14_NotNullMessageAndField ==
    (Returned("HandleError") /\ IsStorage(call.err) /\ GivenKind = "NotNullViolation") =>
        LET column == GivenPgError.ColumnName
            env == call.out[1]
        IN /\ env.Message =
                 <<"T","h","e"," ">> \o (IF column = <<>> THEN <<"f","i","e","l","d">> ELSE humanizeText(column))
                     \o <<" ","i","s"," ","r","e","q","u","i","r","e","d">>
           /\ env.Errors = <<FieldError(ToLower(column), <<"i","s"," ","r","e","q","u","i","r","e","d">>)>>
           /\ column = <<"e","m","a","i","l">> =>
                 /\ env.Message = <<"T","h","e"," ","E","m","a","i","l"," ","i","s"," ","r","e","q","u","i","r","e","d">>
                 /\ env.Errors = <<FieldError(<<"e","m","a","i","l">>, <<"i","s"," ","r","e","q","u","i","r","e","d">>)>>
           /\ column = <<"C","r","e","a","t","e","d","_","A","t">> =>
                 /\ env.Message = <<"T","h","e"," ","C","r","e","a","t","e","d"," ","A","t"," ","i","s"," ","r","e","q","u","i","r","e","d">>
                 /\ env.Errors[1].Field = <<"c","r","e","a","t","e","d","_","a","t">>
           /\ column = <<>> => env.Message = <<"T","h","e"," ","f","i","e","l","d"," ","i","s"," ","r","e","q","u","i","r","e","d">>

C14_Witness ==
    /\ Returned("HandleError")
    /\ call.err = <<Join, SqlErrNoRows, PgNotNullEmail>>
    /\ call.out[1].Message = <<"T","h","e"," ","E","m","a","i","l"," ","i","s"," ","r","e","q","u","i","r","e","d">>
    /\ Len(call.out[1].Errors) = 1

\* C15: for a UniqueViolation, HandleError returns the message "A <entity> with
\* this identifier already exists"; when a field can be extracted from the
\* constraint name the word "identifier" is replaced by the humanized field,
\* override is true and there are no field errors
C15_UniqueMessage ==
    (Returned("HandleError") /\ IsStorage(call.err) /\ GivenKind = "UniqueViolation") =>
        LET entity == getEntityName(GivenPgError.TableName, GivenPgError.ColumnName)
            field == extractColumnForUniqueViolation(GivenPgError.ConstraintName)
            env == call.out[1]
        IN /\ env.Message =
                 <<"A"," ">> \o entity \o <<" ","w","i","t","h"," ","t","h","i","s"," ">>
                     \o (IF field # <<>> THEN humanizeText(field) ELSE <<"i","d","e","n","t","i","f","i","e","r">>)
                     \o <<" ","a","l","r","e","a","d","y"," ","e","x","i","s","t","s">>
           /\ field # <<>> => (env.Override /\ env.Errors = Nil)
           /\ (GivenPgError.ConstraintName = <<"u","n","i","q","u","e","_","u","s","e","r","s","_","e","m","a","i","l">>
                  /\ GivenPgError.TableName = <<"u","s","e","r","s">> /\ GivenPgError.ColumnName = <<>>) =>
                 /\ env.Message = <<"A"," ","U","s","e","r"," ","w","i","t","h"," ","t","h","i","s"," ","E","m","a","i","l"," ","a","l","r","e","a","d","y"," ","e","x","i","s","t","s">>
                 /\ env.Override

\* C16: formatUserFriendlyMessage returns "The referenced <entity> does not exist"
\* for a ForeignKeyViolation; for a CheckViolation "The <field> value does not meet
\* required conditions" when the column name is non-empty and "One or more values
\* do not meet required conditions" otherwise; and "An error occurred while
\* processing your request" for every Kind outside the four constraint Kinds
C16_MessageByKind ==
    Returned("formatUserFriendlyMessage") =>
        LET e == call.sqlErr
            entity == getEntityName(e.TableName, e.ColumnName)
        IN /\ e.Code = "ForeignKeyViolation" =>
                 call.out = <<"T","h","e"," ","r","e","f","e","r","e","n","c","e","d"," ">> \o entity \o <<" ","d","o","e","s"," ","n","o","t"," ","e","x","i","s","t">>
           /\ (e.Code = "ForeignKeyViolation" /\ e.ColumnName = <<"c","u","s","t","o","m","e","r","_","i","d">>) =>
                 call.out = <<"T","h","e"," ","r","e","f","e","r","e","n","c","e","d"," ","C","u","s","t","o","m","e","r"," ","d","o","e","s"," ","n","o","t"," ","e","x","i","s","t">>
           /\ (e.Code = "CheckViolation" /\ e.ColumnName # <<>>) =>
                 call.out = <<"T","h","e"," ">> \o humanizeText(e.ColumnName)
                                \o <<" ","v","a","l","u","e"," ","d","o","e","s"," ","n","o","t"," ","m","e","e","t"," ","r","e","q","u","i","r","e","d"," ","c","o","n","d","i","t","i","o","n","s">>
           /\ (e.Code = "CheckViolation" /\ e.ColumnName = <<"f","i","r","s","t","_","n","a","m","e">>) =>
                 call.out = <<"T","h","e"," ","F","i","r","s","t"," ","N","a","m","e"," ","v","a","l","u","e"," ","d","o","e","s"," ","n","o","t"," ","m","e","e","t"," ","r","e","q","u","i","r","e","d"," ","c","o","n","d","i","t","i","o","n","s">>
           /\ (e.Code = "CheckViolation" /\ e.ColumnName = <<>>) =>
                 call.out = <<"O","n","e"," ","o","r"," ","m","o","r","e"," ","v","a","l","u","e","s"," ","d","o"," ","n","o","t"," ","m","e","e","t"," ","r","e","q","u","i","r","e","d"," ","c","o","n","d","i","t","i","o","n","s">>
           /\ e.Code \notin ConstraintKinds =>
                 call.out = <<"A","n"," ","e","r","r","o","r"," ","o","c","c","u","r","r","e","d"," ","w","h","i","l","e"," ","p","r","o","c","e","s","s","i","n","g"," ","y","o","u","r"," ","r","e","q","u","e","s","t">>

C16_Witness ==
    /\ Returned("formatUserFriendlyMessage")
    /\ call.sqlErr.Code = "CheckViolation"
    /\ call.sqlErr.ColumnName = <<"f","i","r","s","t","_","n","a","m","e">>
    /\ call.out = <<"T","h","e"," ","F","i","r","s","t"," ","N","a","m","e"," ","v","a","l","u","e"," ","d","o","e","s"," ","n","o","t"," ","m","e","e","t"," ","r","e","q","u","i","r","e","d"," ","c","o","n","d","i","t","i","o","n","s">>

\* the texts that carry no entity and no field
GenericTexts ==
    {<<"O","n","e"," ","o","r"," ","m","o","r","e"," ","v","a","l","u","e","s"," ","d","o"," ","n","o","t"," ","m","e","e","t"," ","r","e","q","u","i","r","e","d"," ","c","o","n","d","i","t","i","o","n","s">>, <<"R","e","s","o","u","r","c","e"," ","n","o","t"," ","f","o","u","n","d">>,
     <<"I","n","t","e","r","n","a","l"," ","S","e","r","v","e","r"," ","E","r","r","o","r">>, <<"A","n"," ","e","r","r","o","r"," ","o","c","c","u","r","r","e","d"," ","w","h","i","l","e"," ","p","r","o","c","e","s","s","i","n","g"," ","y","o","u","r"," ","r","e","q","u","e","s","t">>}

\* C17: in every envelope HandleError builds from a storage error or a no-rows
\* sentinel, override is true exactly when the message is not one of the generic
\* texts
C17_OverrideIffSpecific ==
    (Returned("HandleError") /\ (IsStorage(call.err) \/ IsNoRows(call.err))) =>
        (call.out[1].Override <=> call.out[1].Message \notin GenericTexts)

-----------------------------------------------------------------------------
(* properties: validation translator *)

\* C18: getValidationMessage maps required, oneof, email, e164, uuid, uuidList and
\* dive to their fixed texts, min and max to "must be at least <param>" and "must
\* not exceed <param>", followed by " characters" when the field is text, and every
\* other tag to "<lower-cased field>: <tag>:<param>", or "<lower-cased field>:
\* <tag>" when there is no parameter
C18_ValidationMessage ==
    Returned("getValidationMessage") =>
        LET e == call.fe
            unit == IF e.isString THEN <<" ","c","h","a","r","a","c","t","e","r","s">> ELSE <<>>
        IN /\ call.out =
                 CASE e.Tag = <<"r","e","q","u","i","r","e","d">> -> <<"i","s"," ","r","e","q","u","i","r","e","d">>
                   [] e.Tag = <<"m","i","n">> -> <<"m","u","s","t"," ","b","e"," ","a","t"," ","l","e","a","s","t"," ">> \o e.Param \o unit
                   [] e.Tag = <<"m","a","x">> -> <<"m","u","s","t"," ","n","o","t"," ","e","x","c","e","e","d"," ">> \o e.Param \o unit
                   [] e.Tag = <<"o","n","e","o","f">> -> <<"m","u","s","t"," ","b","e"," ","o","n","e"," ","o","f",":"," ">> \o e.Param
                   [] e.Tag = <<"e","m","a","i","l">> -> <<"m","u","s","t"," ","b","e"," ","a"," ","v","a","l","i","d"," ","e","m","a","i","l"," ","a","d","d","r","e","s","s">>
                   [] e.Tag = <<"e","1","6","4">> ->
                        <<"m","u","s","t"," ","b","e"," ","a"," ","v","a","l","i","d"," ","p","h","o","n","e"," ","n","u","m","b","e","r"," ","w","i","t","h"," ","c","o","u","n","t","r","y"," ","c","o","d","e">>
                   [] e.Tag = <<"u","u","i","d">> -> <<"m","u","s","t"," ","b","e"," ","a"," ","v","a","l","i","d"," ","U","U","I","D">>
                   [] e.Tag = <<"u","u","i","d","L","i","s","t">> ->
                        <<"m","u","s","t"," ","b","e"," ","a"," ","c","o","m","m","a","-","s","e","p","a","r","a","t","e","d"," ","l","i","s","t"," ","o","f"," ","v","a","l","i","d"," ","U","U","I","D","s">>
                   [] e.Tag = <<"d","i","v","e">> -> <<"s","o","m","e"," ","i","t","e","m","s"," ","a","r","e"," ","i","n","v","a","l","i","d">>
                   [] OTHER ->
                        ToLower(e.Field) \o <<":"," ">> \o e.Tag
                            \o (IF e.Param # <<>> THEN <<":">> \o e.Param ELSE <<>>)
           /\ (e.Tag = <<"m","i","n">> /\ e.Param = <<"8">> /\ e.isString) =>
                 call.out = <<"m","u","s","t"," ","b","e"," ","a","t"," ","l","e","a","s","t"," ","8"," ","c","h","a","r","a","c","t","e","r","s">>
           /\ (e.Tag = <<"m","i","n">> /\ e.Param = <<"8">> /\ ~e.isString) =>
                 call.out = <<"m","u","s","t"," ","b","e"," ","a","t"," ","l","e","a","s","t"," ","8">>
           /\ (e.Tag = <<"m","a","x">> /\ e.Param = <<"8">> /\ ~e.isString) =>
                 call.out = <<"m","u","s","t"," ","n","o","t"," ","e","x","c","e","e","d"," ","8">>
           /\ (e.Tag = <<"g","t","e">> /\ e.Param = <<"8">> /\ e.Field = <<"a","g","e">>) =>
                 call.out = <<"a","g","e",":"," ","g","t","e",":","8">>
           /\ (e.Tag = <<"R","e","q","u","i","r","e","d">> /\ e.Param = <<>> /\ e.Field = <<"E","M","a","i","l">>) =>
                 call.out = <<"e","m","a","i","l",":"," ","R","e","q","u","i","r","e","d">>

C18_Witness ==
    /\ Returned("getValidationMessage")
    /\ call.fe = FailMin
    /\ call.out = <<"m","u","s","t"," ","b","e"," ","a","t"," ","l","e","a","s","t"," ","8">>

\* C19: every FieldError that extractValidationErrors produces has a lower-cased
\* field name, from the custom error list and from the validator's failures alike
C19_FieldNamesLowerCased ==
    Returned("extractValidationErrors") =>
        \A i \in 1..Len(call.out.fieldErrors) :
            call.out.fieldErrors[i].Field = ToLower(call.out.fieldErrors[i].Field)

\* the failures a validation error lists, in its order
Failures(verr) ==
    CASE verr.t = "CustomValidationErrors" -> verr.items
      [] verr.t = "validator.ValidationErrors" -> verr.failures
      [] OTHER -> <<>>

\* the text of the k-th failure
FailureText(verr, k) ==
    IF verr.t = "CustomValidationErrors"
    THEN verr.items[k].Message
    ELSE getValidationMessage(verr.failures[k])

\* C20: the field errors keep their order end to end: for a payload whose
\* Validate() lists failures, the envelope GlobalErrorHandler writes has one field
\* error per failure, the k-th for the k-th failure, and for every domain HttpError
\* the written fields are the HttpError's Errors, in the same order
C20_FieldOrderPreserved ==
    FirstCallWrote =>
        /\ IsDomain(calls[1].err) =>
              wire[1].body.Errors = FirstOfType(calls[1].err, "HttpError").Errors
        /\ \A p \in Payloads :
              (p.bind = Nil /\ p.validate # Nil /\ Failures(p.validate[1]) # <<>>
                  /\ calls[1].err = Returned_BindAndValidate[p]) =>
                  LET verr == p.validate[1]
                      fields == wire[1].body.Errors
                  IN /\ Len(fields) = Len(Failures(verr))
                     /\ \A k \in 1..Len(fields) :
                           /\ ToLower(fields[k].Field) = ToLower(Failures(verr)[k].Field)
                           /\ fields[k].Error = FailureText(verr, k)

C20_Witness ==
    /\ FirstCallWrote
    /\ calls[1].err =
           Returned_BindAndValidate[Payload(Nil,
               <<ValidationErrors(<<FailEmail, FailMin, FailGte, FailRequired>>)>>)]
    /\ Len(wire[1].body.Errors) = 4
    /\ wire[1].body.Errors[1] = FieldError(<<"e","m","a","i","l">>, <<"m","u","s","t"," ","b","e"," ","a"," ","v","a","l","i","d"," ","e","m","a","i","l"," ","a","d","d","r","e","s","s">>)
    /\ wire[1].body.Errors[4] = FieldError(<<"p","a","s","s","w","o","r","d">>, <<"i","s"," ","r","e","q","u","i","r","e","d">>)

-----------------------------------------------------------------------------
(* properties: validation outcome, logging, storage detail *)

\* C21: when binding succeeds and Validate() returns an error, of any type and with
\* any number of failed fields, BindAndValidate returns a status-400 envelope with
\* the message "Validation failed"; it returns nil only when Validate() returned nil
C21_ValidationErrorRejected ==
    (Returned("BindAndValidate") /\ call.payload.bind = Nil) =>
        /\ call.payload.validate # Nil =>
              /\ call.out # Nil
              /\ call.out[1].Status = 400
              /\ call.out[1].Message = <<"V","a","l","i","d","a","t","i","o","n"," ","f","a","i","l","e","d">>
        /\ call.out = Nil => call.payload.validate = Nil

\* C22: every GlobalErrorHandler invocation emits one log line, at error level when
\* the resolved status is 500 or above, at warning level when it is 400 to 499 and
\* at info level otherwise, and the line carries the resolved status and code
C22_LogLevelByStatus ==
    /\ Len(log) = Len(calls)
    /\ \A i \in 1..Len(log) :
          /\ log[i].level = IF log[i].status >= 500 THEN "error"
                            ELSE IF log[i].status >= 400 THEN "warn"
                            ELSE "info"
          /\ log[i].status = Envelope(calls[i].err).Status
          /\ log[i].error_code = Envelope(calls[i].err).Code

\* the texts of an envelope: code, message, field errors and action
EnvelopeTexts(h) ==
    {h.Code, h.Message}
        \cup {h.Errors[i].Field : i \in 1..Len(h.Errors)}
        \cup {h.Errors[i].Error : i \in 1..Len(h.Errors)}
        \cup UNION {{h.Action[i].Type, h.Action[i].Message, h.Action[i].Value} :
                       i \in 1..Len(h.Action)}

\* what the storage engine reported: SQLSTATE, message, and the cause's text
RawDetail(pg) ==
    {d \in {pg.Code, pg.Message, ErrText(<<pg>>), pg.SchemaName, pg.DataTypeName} :
        d # <<>>}

\* C23: for a storage error whose Kind is none of the four constraint Kinds,
\* HandleError and GlobalErrorHandler both produce the generic internal-error
\* envelope whatever the raw code, message, schema, table, column, data type,
\* constraint and cause are; and for every Kind no text of either envelope
\* contains the raw SQLSTATE code, the engine message or the cause's text
C23_NoStorageDetailOnWire ==
    (Returned("HandleError") /\ IsStorage(call.err) /\ ~IsEcho(call.err)) =>
        LET pg == FirstOfType(call.err, "PgError")
            kind == MapDatabaseErrorCode(pg.Code)
            out == call.out[1]
            env == Envelope(call.err)
        IN /\ kind \notin ConstraintKinds => out = GenericInternal /\ env = GenericInternal
           /\ \A txt \in EnvelopeTexts(out) \cup EnvelopeTexts(env) :
                 \A raw \in RawDetail(pg) : ~Contains(txt, raw)

C23_Witness ==
    /\ Returned("HandleError") /\ IsStorage(call.err) /\ ~IsEcho(call.err)
    /\ FirstOfType(call.err, "PgError").SchemaName # <<>>
    /\ FirstOfType(call.err, "PgError").Code = <<"4","0","P","0","1">>
    /\ Len(call.err) = 2
    /\ call.out[1] = GenericInternal

\* C24: two HandleError calls on storage errors that agree in Kind, table, column
\* and constraint return envelopes equal in code, status, message, override and
\* field errors, whatever else the errors differ in (SQLSTATE of the same Kind,
\* severity, engine message, schema, data type, wrapping) and whichever other
\* call returned before, between or after them
C24_SameNamesSameEnvelope ==
    LET a == FirstOfType(call.first, "PgError")
        b == FirstOfType(call.second, "PgError")
    IN (/\ call.done1 /\ call.done2
        /\ MapDatabaseErrorCode(a.Code) = MapDatabaseErrorCode(b.Code)
        /\ a.TableName = b.TableName
        /\ a.ColumnName = b.ColumnName
        /\ a.ConstraintName = b.ConstraintName) =>
           /\ call.out1[1].Code = call.out2[1].Code
           /\ call.out1[1].Status = call.out2[1].Status
           /\ call.out1[1].Message = call.out2[1].Message
           /\ call.out1[1].Override = call.out2[1].Override
           /\ call.out1[1].Errors = call.out2[1].Errors

C24_Witness ==
    LET a == FirstOfType(call.first, "PgError")
        b == FirstOfType(call.second, "PgError")
    IN /\ call.done1 /\ call.done2 /\ call.done3
       /\ a.Code = <<"2","3","5","0","2">> /\ b.Code = <<"2","3","5","0","2">>
       /\ a.TableName = b.TableName /\ a.ColumnName = <<"e","m","a","i","l">> /\ b.ColumnName = <<"e","m","a","i","l">>
       /\ a.ConstraintName = b.ConstraintName
       /\ a.Message # b.Message /\ a.SchemaName # b.SchemaName
       /\ Len(call.second) = 2
       /\ call.out1 = call.out2
       /\ call.out1[1].Errors # Nil

\* C25: getEntityName never returns the empty string, whatever table and column
\* names it is given (a column that is exactly "_id" included), and the message
\* of a foreign-key or unique violation names a non-empty entity
C25_EntityWordNeverEmpty ==
    /\ Returned("getEntityName") => call.out # <<>>
    /\ Returned("formatUserFriendlyMessage") =>
          /\ call.out # <<"T","h","e"," ","r","e","f","e","r","e","n","c","e","d"," "," ","d","o","e","s"," ","n","o","t"," ","e","x","i","s","t">>
          /\ call.out # <<"A"," "," ","w","i","t","h"," ","t","h","i","s"," ","i","d","e","n","t","i","f","i","e","r"," ","a","l","r","e","a","d","y"," ","e","x","i","s","t","s">>

\* the status RequestLogger decides on
NormalizedStatus(v) ==
    IF HasType(v.Error, "HttpError") THEN FirstOfType(v.Error, "HttpError").Status
    ELSE IF HasType(v.Error, "echo.HTTPError")
         THEN FirstOfType(v.Error, "echo.HTTPError").Code
    ELSE v.Status

\* C26: RequestLogger picks the level from the normalized status, which is the
\* Status of a domain HttpError in the error chain, else the Code of an echo
\* HTTPError, else the recorded response status: error level with the error
\* attached at 500 and above, warning level at 400 to 499, info level otherwise;
\* the logged status field is the normalized status
C26_RequestLogLevel ==
    Returned("RequestLogger") =>
        LET status == NormalizedStatus(call.v)
        IN /\ call.out.status = status
           /\ status >= 500 => call.out.level = "error" /\ call.out.err = call.v.Error
           /\ (status >= 400 /\ status < 500) =>
                 call.out.level = "warn" /\ call.out.err = Nil
           /\ status < 400 => call.out.level = "info" /\ call.out.err = Nil

C26_Witness ==
    /\ Returned("RequestLogger")
    /\ call.v.Status = 200
    /\ IsDomain(call.v.Error) /\ HasType(call.v.Error, "echo.HTTPError")
    /\ FirstOfType(call.v.Error, "echo.HTTPError").Code = 500
    /\ call.out.level = "warn"
    /\ call.out.status = 400

\* C27: RequestID stores a non-empty request id in the context and sets the
\* response header X-Request-ID to the same value; the value is the client's
\* X-Request-ID when that is non-empty and a generated id only otherwise;
\* GetRequestID returns the stored string, and "" when none is stored
C27_RequestIDPropagated ==
    /\ Returned("RequestID") =>
          /\ GetRequestID(call.out.store) # <<>>
          /\ call.out.responseHeader = GetRequestID(call.out.store)
          /\ call.header # <<>> => call.out.responseHeader = call.header
          /\ call.header = <<>> => call.out.responseHeader = call.uuid
    /\ Returned("GetRequestID") =>
          /\ call.store = Nil => call.out = <<>>
          /\ (call.store # Nil /\ call.store[1].isString) => call.out = call.store[1].val

C27_Witness ==
    /\ Returned("RequestID")
    /\ call.header = <<"a","b","c","-","1","2","3">>
    /\ call.out.responseHeader = <<"a","b","c","-","1","2","3">>
    /\ call.out.store = <<ContextValue(TRUE, <<"a","b","c","-","1","2","3">>)>>

\* C28: ErrCode returns the Kind of a database error, also when it is wrapped or
\* joined with other errors, and Other for nil and for an error that holds no
\* database error: ErrCode(ConvertPgError(pg)) = MapDatabaseErrorCode(pg.Code)
C28_ErrCodeIsMappedKind ==
    Returned("ErrCode") =>
        IF HasType(call.err, "sqlerr.Error")
        THEN call.out = MapDatabaseErrorCode(FirstOfType(call.err, "PgError").Code)
        ELSE call.out = "Other"

C28_Witness ==
    /\ Returned("ErrCode")
    /\ Len(call.err) = 3
    /\ call.err[1].t = "wrap"
    /\ call.err[2].t = "sqlerr.Error"
    /\ call.err[3].Code = <<"2","3","5","0","5">>
    /\ call.out = "UniqueViolation"

\* C29: HandleError returns a non-nil error for every input, nil included; unless
\* the chain holds a domain HttpError, which is returned as it is, the result is
\* a new envelope with status 400, 404 or 500; a PgError takes precedence over a
\* no-rows sentinel in the same chain
C29_HandleErrorTotal ==
    Returned("HandleError") =>
        /\ call.out # Nil
        /\ IsDomain(call.err) => call.out = call.err
        /\ ~IsDomain(call.err) =>
              /\ Len(call.out) = 1
              /\ call.out[1].t = "HttpError"
              /\ call.out[1].Status \in {400, 404, 500}
        /\ (IsStorage(call.err) /\ HasType(call.err, "ErrNoRows")) =>
              call.out = <<HandlePgError(FirstOfType(call.err, "PgError"))>>
                  /\ call.out[1].Status # 404

C29_Witness ==
    /\ Returned("HandleError")
    /\ Len(call.err) = 3
    /\ call.err[2].t = "ErrNoRows"
    /\ call.err[3].t = "PgError"
    /\ call.out[1].Status = 400
    /\ call.out[1].Errors # Nil

\* Start returned its not-configured error and nothing is listening
StartRefused ==
    call.start = "returned: not configured" => call.httpServer # "listening"

\* what Shutdown has stopped so far, in order: HTTP server, pool, job service
ShutdownInOrder ==
    \E n \in 0..3 : call.stopped = SubSeq(<<"http", "db", "job">>, 1, n)
                       \/ (call.Job = "nil" /\ call.stopped = SubSeq(<<"http", "db">>, 1, n))

\* C30: Start before ConfigureHTTPServer returns an error without listening;
\* Shutdown stops the HTTP server first, then closes the database pool, then
\* stops the job service; after a Shutdown call that has returned, with or
\* without an error, the pool is closed and the job service is stopped
C30_ShutdownReleasesAll ==
    /\ StartRefused
    /\ ShutdownInOrder
    /\ call.shutdown \in {"returned: nil", "returned: error"} =>
          /\ call.DB = "closed"
          /\ call.Job # "running"

=============================================================================
